---- MODULE Spec2Model ----
(***************************************************************************)
(* pixutils: the pixel-format registry, its geometry queries (stride,      *)
(* planesize, framesize), the registry lookups, the fourcc codec and the   *)
(* conversions to BGR888 (RGB, YUV and RAW Bayer formats).                 *)
(*                                                                         *)
(* A client makes one call at a time: from "idle" it calls an operation    *)
(* with arguments drawn from bounded sets, the operation runs to its       *)
(* return value or to the Python exception it raises, and the client       *)
(* either feeds the value into one more call or goes back to "idle".       *)
(***************************************************************************)
EXTENDS Integers, Sequences, FiniteSets, TLC

VARIABLES
    pc,     \* "idle" | "returned": the client's position
    op,     \* the operation called last
    args,   \* its arguments (a record)
    ret,    \* its outcome: a value returned or an exception raised
    prev    \* the call before it, when its value was fed into this one

vars == <<pc, op, args, ret, prev>>

----------------------------------------------------------------------------
(* Bounds of the model *)

\* widths drawn for stride/framesize: 1..MaxWidth
MaxWidth == 8
\* heights drawn for planesize/framesize: 1..MaxHeight
MaxHeight == 4
\* align arguments drawn: 1..MaxAlign
MaxAlign == 4
\* plane indices drawn: 0..MaxPlane (the registry's formats have 1 to 3 planes)
MaxPlane == 3
\* free-standing stride arguments of planesize: 0..MaxStride
MaxStride == 3
\* fourcc strings drawn have 0..MaxStrLen characters
MaxStrLen == 5

----------------------------------------------------------------------------
(* Outcomes of a Python call *)

\* the call returned v
Ok(v) == [ok |-> TRUE, val |-> v, err |-> "none"]

\* the call raised exception e and returned nothing
Raise(e) == [ok |-> FALSE, val |-> <<>>, err |-> e]

\* no call yet
NoCall == [op |-> "none"]

----------------------------------------------------------------------------
(* Python integers.  A fourcc of four 8-bit characters needs 32 unsigned   *)
(* bits, so an int is kept as its little-endian base-256 digits without    *)
(* leading zero digits (0 is <<>>); a str is the sequence of its code      *)
(* points.                                                                 *)

RECURSIVE BitOrNat(_, _)
BitOrNat(a, b) ==
    IF a = 0 THEN b
    ELSE IF b = 0 THEN a
    ELSE (IF a % 2 = 1 \/ b % 2 = 1 THEN 1 ELSE 0) + 2 * BitOrNat(a \div 2, b \div 2)

RECURSIVE BitAndNat(_, _)
BitAndNat(a, b) ==
    IF a = 0 \/ b = 0 THEN 0
    ELSE (IF a % 2 = 1 /\ b % 2 = 1 THEN 1 ELSE 0) + 2 * BitAndNat(a \div 2, b \div 2)

RECURSIVE Norm(_)
Norm(x) ==
    IF x # <<>> /\ x[Len(x)] = 0 THEN Norm(SubSeq(x, 1, Len(x) - 1)) ELSE x

Digit(x, i) == IF i <= Len(x) THEN x[i] ELSE 0

RECURSIVE IntOf(_)
IntOf(n) == IF n = 0 THEN <<>> ELSE <<n % 256>> \o IntOf(n \div 256)

RECURSIVE NatOf(_)
NatOf(x) == IF x = <<>> THEN 0 ELSE x[1] + 256 * NatOf(Tail(x))

\* x << n, for the shift counts the code uses (multiples of 8)
Lsh(x, n) == IF x = <<>> THEN <<>> ELSE [i \in 1..(n \div 8) |-> 0] \o x

\* x >> n, for the shift counts the code uses (multiples of 8)
Rsh(x, n) == SubSeq(x, (n \div 8) + 1, Len(x))

\* x | y
BitOr(x, y) ==
    LET n == IF Len(x) >= Len(y) THEN Len(x) ELSE Len(y)
    IN  Norm([i \in 1..n |-> BitOrNat(Digit(x, i), Digit(y, i))])

\* x & y
BitAnd(x, y) ==
    LET n == IF Len(x) <= Len(y) THEN Len(x) ELSE Len(y)
    IN  Norm([i \in 1..n |-> BitAndNat(x[i], y[i])])

\* ord(c): the code point of a character, as an int
ord(c) == IntOf(c)

\* chr(i): the character with code point i
chr(i) == NatOf(i)

----------------------------------------------------------------------------
(* fourcc_str.py *)

\* fourcc_to_str with the third character taken from bits 8..15 again
MutFourccToStrShift(fourcc) ==
    Ok(<< chr(BitAnd(Rsh(fourcc, 0), IntOf(255))),
          chr(BitAnd(Rsh(fourcc, 8), IntOf(255))),
          chr(BitAnd(Rsh(fourcc, 8), IntOf(255))),
          chr(BitAnd(Rsh(fourcc, 24), IntOf(255))) >>)

fourcc_to_str(fourcc) ==
    Ok(<< chr(BitAnd(Rsh(fourcc, 0), IntOf(255))),
          chr(BitAnd(Rsh(fourcc, 8), IntOf(255))),
          chr(BitAnd(Rsh(fourcc, 16), IntOf(255))),
          chr(BitAnd(Rsh(fourcc, 24), IntOf(255))) >>)

\* str_to_fourcc that rejects only strings shorter than 4
MutStrToFourccShortOnly(s) ==
    IF Len(s) < 4
    THEN Raise("ValueError")
    ELSE Ok(BitOr(BitOr(BitOr(Lsh(ord(s[1]), 0), Lsh(ord(s[2]), 8)),
                        Lsh(ord(s[3]), 16)),
                  Lsh(ord(s[4]), 24)))

str_to_fourcc(s) ==
    IF Len(s) # 4
    THEN Raise("ValueError")
    ELSE Ok(BitOr(BitOr(BitOr(Lsh(ord(s[1]), 0), Lsh(ord(s[2]), 8)),
                        Lsh(ord(s[3]), 16)),
                  Lsh(ord(s[4]), 24)))

----------------------------------------------------------------------------
(* pixelformats.py: PixelFormat *)

\* Python's None, where an int fourcc is expected: no digit sequence holds -1
None == <<-1>>

\* a fourcc string argument that is None (or ''): both are falsy in __init__
NoneStr == <<>>

\* int(ceil(a / b)) for a >= 0, b >= 1.  The float quotient is exact far
\* beyond the sizes drawn here (a < 2^53), so this is the integer ceiling.
_div_round_up(a, b) == IF a % b = 0 THEN a \div b ELSE (a \div b) + 1

\* _align_up that rounds down to a multiple of b
Mut_align_up_down(a, b) == (a \div b) * b

_align_up(a, b) == _div_round_up(a, b) * b

\* PixelFormatPlaneInfo(*adjust_p(p))
adjust_p(p) ==
    LET q == IF Len(p) = 1 THEN <<p[1], 1, 1, 1>>
             ELSE IF Len(p) = 2 THEN <<p[1], p[2], 1, 1>>
             ELSE p
    IN  [bytes_per_block |-> q[1], pixels_per_block |-> q[2],
         hsub |-> q[3], vsub |-> q[4]]

\* PixelFormat.__init__
PixelFormat(name, drm_fourcc, v4l2_fourcc, colorencoding, packed, pixel_align, planes) ==
    [name |-> name,
     drm_fourcc |-> IF drm_fourcc # NoneStr THEN str_to_fourcc(drm_fourcc).val ELSE None,
     v4l2_fourcc |-> IF v4l2_fourcc # NoneStr THEN str_to_fourcc(v4l2_fourcc).val ELSE None,
     color |-> colorencoding,
     packed |-> packed,
     pixel_align |-> pixel_align,
     planes |-> [i \in 1..Len(planes) |-> adjust_p(planes[i])]]

\* The class body of PixelFormats: each field that holds a PixelFormat, as
\* <<field, name, drm_fourcc, v4l2_fourcc, colorencoding, packed, pixel_align, planes>>:
\* the field's name and the arguments of its PixelFormat(...), in the order
\* of the class body.
PixelFormats ==
  <<
    <<"R8", "R8", <<82, 56, 32, 32>>, NoneStr, "RGB", FALSE, <<1, 1>>, <<<<1>>>>>>,
    <<"RGB332", "RGB332", <<82, 71, 66, 56>>, NoneStr, "RGB", FALSE, <<1, 1>>, <<<<1>>>>>>,
    <<"RGB565", "RGB565", <<82, 71, 49, 54>>, <<82, 71, 66, 80>>, "RGB", FALSE, <<1, 1>>, <<<<2>>>>>>,
    <<"BGR565", "BGR565", <<66, 71, 49, 54>>, NoneStr, "RGB", FALSE, <<1, 1>>, <<<<2>>>>>>,
    <<"XRGB1555", "XRGB1555", <<88, 82, 49, 53>>, NoneStr, "RGB", FALSE, <<1, 1>>, <<<<2>>>>>>,
    <<"RGBX4444", "RGBX4444", <<82, 88, 49, 50>>, NoneStr, "RGB", FALSE, <<1, 1>>, <<<<2>>>>>>,
    <<"XRGB4444", "XRGB4444", <<88, 82, 49, 50>>, NoneStr, "RGB", FALSE, <<1, 1>>, <<<<2>>>>>>,
    <<"ARGB1555", "ARGB1555", <<65, 82, 49, 53>>, NoneStr, "RGB", FALSE, <<1, 1>>, <<<<2>>>>>>,
    <<"RGBA4444", "RGBA4444", <<82, 65, 49, 50>>, NoneStr, "RGB", FALSE, <<1, 1>>, <<<<2>>>>>>,
    <<"ARGB4444", "ARGB4444", <<65, 82, 49, 50>>, NoneStr, "RGB", FALSE, <<1, 1>>, <<<<2>>>>>>,
    <<"RGB888", "RGB888", <<82, 71, 50, 52>>, <<66, 71, 82, 51>>, "RGB", FALSE, <<1, 1>>, <<<<3>>>>>>,
    <<"BGR888", "BGR888", <<66, 71, 50, 52>>, <<82, 71, 66, 51>>, "RGB", FALSE, <<1, 1>>, <<<<3>>>>>>,
    <<"XRGB8888", "XRGB8888", <<88, 82, 50, 52>>, <<88, 82, 50, 52>>, "RGB", FALSE, <<1, 1>>, <<<<4>>>>>>,
    <<"XBGR8888", "XBGR8888", <<88, 66, 50, 52>>, <<88, 66, 50, 52>>, "RGB", FALSE, <<1, 1>>, <<<<4>>>>>>,
    <<"RGBX8888", "RGBX8888", <<82, 88, 50, 52>>, <<82, 88, 50, 52>>, "RGB", FALSE, <<1, 1>>, <<<<4>>>>>>,
    <<"BGRX8888", "BGRX8888", <<66, 88, 50, 52>>, NoneStr, "RGB", FALSE, <<1, 1>>, <<<<4>>>>>>,
    <<"XBGR2101010", "XBGR2101010", <<88, 66, 51, 48>>, <<82, 88, 51, 48>>, "RGB", FALSE, <<1, 1>>, <<<<4>>>>>>,
    <<"XRGB2101010", "XRGB2101010", <<88, 82, 51, 48>>, NoneStr, "RGB", FALSE, <<1, 1>>, <<<<4>>>>>>,
    <<"RGBX1010102", "RGBX1010102", <<82, 88, 51, 48>>, NoneStr, "RGB", FALSE, <<1, 1>>, <<<<4>>>>>>,
    <<"BGRX1010102", "BGRX1010102", <<66, 88, 51, 48>>, NoneStr, "RGB", FALSE, <<1, 1>>, <<<<4>>>>>>,
    <<"ARGB8888", "ARGB8888", <<65, 82, 50, 52>>, <<65, 82, 50, 52>>, "RGB", FALSE, <<1, 1>>, <<<<4>>>>>>,
    <<"ABGR8888", "ABGR8888", <<65, 66, 50, 52>>, <<65, 66, 50, 52>>, "RGB", FALSE, <<1, 1>>, <<<<4>>>>>>,
    <<"RGBA8888", "RGBA8888", <<82, 65, 50, 52>>, <<82, 65, 50, 52>>, "RGB", FALSE, <<1, 1>>, <<<<4>>>>>>,
    <<"BGRA8888", "BGRA8888", <<66, 65, 50, 52>>, NoneStr, "RGB", FALSE, <<1, 1>>, <<<<4>>>>>>,
    <<"ABGR2101010", "ABGR2101010", <<65, 66, 51, 48>>, NoneStr, "RGB", FALSE, <<1, 1>>, <<<<4>>>>>>,
    <<"ARGB2101010", "ARGB2101010", <<65, 82, 51, 48>>, NoneStr, "RGB", FALSE, <<1, 1>>, <<<<4>>>>>>,
    <<"RGBA1010102", "RGBA1010102", <<82, 65, 51, 48>>, NoneStr, "RGB", FALSE, <<1, 1>>, <<<<4>>>>>>,
    <<"BGRA1010102", "BGRA1010102", <<66, 65, 51, 48>>, NoneStr, "RGB", FALSE, <<1, 1>>, <<<<4>>>>>>,
    <<"YUYV", "YUYV", <<89, 85, 89, 86>>, <<89, 85, 89, 86>>, "YUV", FALSE, <<2, 1>>, <<<<4, 2, 1, 1>>>>>>,
    <<"UYVY", "UYVY", <<85, 89, 86, 89>>, <<85, 89, 86, 89>>, "YUV", FALSE, <<2, 1>>, <<<<4, 2, 1, 1>>>>>>,
    <<"YVYU", "YVYU", <<89, 86, 89, 85>>, <<89, 86, 89, 85>>, "YUV", FALSE, <<2, 1>>, <<<<4, 2, 1, 1>>>>>>,
    <<"VYUY", "VYUY", <<86, 89, 85, 89>>, <<86, 89, 85, 89>>, "YUV", FALSE, <<2, 1>>, <<<<4, 2, 1, 1>>>>>>,
    <<"VUY888", "VUY888", <<86, 85, 50, 52>>, <<89, 85, 86, 51>>, "YUV", FALSE, <<1, 1>>, <<<<3>>>>>>,
    <<"XVUY8888", "XVUY8888", <<88, 86, 85, 89>>, <<89, 85, 86, 88>>, "YUV", FALSE, <<1, 1>>, <<<<4>>>>>>,
    <<"Y210", "Y210", <<89, 50, 49, 48>>, NoneStr, "YUV", FALSE, <<1, 1>>, <<<<8, 2, 1, 1>>>>>>,
    <<"Y212", "Y212", <<89, 50, 49, 50>>, NoneStr, "YUV", FALSE, <<1, 1>>, <<<<8, 2, 1, 1>>>>>>,
    <<"Y216", "Y216", <<89, 50, 49, 54>>, NoneStr, "YUV", FALSE, <<1, 1>>, <<<<8, 2, 1, 1>>>>>>,
    <<"NV12", "NV12", <<78, 86, 49, 50>>, <<78, 77, 49, 50>>, "YUV", FALSE, <<2, 2>>, <<<<1, 1, 1, 1>>, <<2, 1, 2, 2>>>>>>,
    <<"NV21", "NV21", <<78, 86, 50, 49>>, <<78, 77, 50, 49>>, "YUV", FALSE, <<2, 2>>, <<<<1, 1, 1, 1>>, <<2, 1, 2, 2>>>>>>,
    <<"NV16", "NV16", <<78, 86, 49, 54>>, <<78, 77, 49, 54>>, "YUV", FALSE, <<2, 1>>, <<<<1, 1, 1, 1>>, <<2, 1, 2, 1>>>>>>,
    <<"NV61", "NV61", <<78, 86, 54, 49>>, <<78, 77, 54, 49>>, "YUV", FALSE, <<2, 1>>, <<<<1, 1, 1, 1>>, <<2, 1, 2, 1>>>>>>,
    <<"XV15", "XV15", <<88, 86, 49, 53>>, NoneStr, "YUV", FALSE, <<6, 2>>, <<<<4, 3, 1, 1>>, <<8, 3, 2, 2>>>>>>,
    <<"XV20", "XV20", <<88, 86, 50, 48>>, NoneStr, "YUV", FALSE, <<6, 2>>, <<<<4, 3, 1, 1>>, <<8, 3, 2, 1>>>>>>,
    <<"XVUY2101010", "XVUY2101010", <<88, 89, 51, 48>>, NoneStr, "YUV", FALSE, <<1, 1>>, <<<<4>>>>>>,
    <<"YUV420", "YUV420", <<89, 85, 49, 50>>, NoneStr, "YUV", FALSE, <<1, 1>>, <<<<1, 1, 1, 1>>, <<1, 1, 2, 2>>, <<1, 1, 2, 2>>>>>>,
    <<"YVU420", "YVU420", <<89, 86, 49, 50>>, NoneStr, "YUV", FALSE, <<1, 1>>, <<<<1, 1, 1, 1>>, <<1, 1, 2, 2>>, <<1, 1, 2, 2>>>>>>,
    <<"YUV422", "YUV422", <<89, 85, 49, 54>>, NoneStr, "YUV", FALSE, <<1, 1>>, <<<<1, 1, 1, 1>>, <<1, 1, 2, 1>>, <<1, 1, 2, 1>>>>>>,
    <<"YVU422", "YVU422", <<89, 86, 49, 54>>, NoneStr, "YUV", FALSE, <<1, 1>>, <<<<1, 1, 1, 1>>, <<1, 1, 2, 1>>, <<1, 1, 2, 1>>>>>>,
    <<"YUV444", "YUV444", <<89, 85, 50, 52>>, NoneStr, "YUV", FALSE, <<1, 1>>, <<<<1, 1, 1, 1>>, <<1, 1, 1, 1>>, <<1, 1, 1, 1>>>>>>,
    <<"YVU444", "YVU444", <<89, 86, 50, 52>>, NoneStr, "YUV", FALSE, <<1, 1>>, <<<<1, 1, 1, 1>>, <<1, 1, 1, 1>>, <<1, 1, 1, 1>>>>>>,
    <<"X403", "X403", <<88, 52, 48, 51>>, NoneStr, "YUV", FALSE, <<1, 1>>, <<<<4>>, <<4>>, <<4>>>>>>,
    <<"Y8", "Y8", <<71, 82, 69, 89>>, <<71, 82, 69, 89>>, "YUV", FALSE, <<1, 1>>, <<<<1>>>>>>,
    <<"Y10", "Y10", NoneStr, <<89, 49, 48, 32>>, "YUV", FALSE, <<1, 1>>, <<<<2, 1>>>>>>,
    <<"Y10P", "Y10P", NoneStr, <<89, 49, 48, 80>>, "YUV", TRUE, <<4, 1>>, <<<<5, 4>>>>>>,
    <<"Y12", "Y12", NoneStr, <<89, 49, 50, 32>>, "YUV", FALSE, <<1, 1>>, <<<<2, 1>>>>>>,
    <<"Y12P", "Y12P", NoneStr, <<89, 49, 50, 80>>, "YUV", TRUE, <<2, 1>>, <<<<3, 2>>>>>>,
    <<"Y10_LE32", "Y10_P32", <<89, 80, 65, 52>>, NoneStr, "YUV", FALSE, <<3, 1>>, <<<<4, 3>>>>>>,
    <<"SBGGR8", "SBGGR8", NoneStr, <<66, 65, 56, 49>>, "RAW", FALSE, <<2, 2>>, <<<<1, 1>>>>>>,
    <<"SGBRG8", "SGBRG8", NoneStr, <<71, 66, 82, 71>>, "RAW", FALSE, <<2, 2>>, <<<<1, 1>>>>>>,
    <<"SGRBG8", "SGRBG8", NoneStr, <<71, 82, 66, 71>>, "RAW", FALSE, <<2, 2>>, <<<<1, 1>>>>>>,
    <<"SRGGB8", "SRGGB8", NoneStr, <<82, 71, 71, 66>>, "RAW", FALSE, <<2, 2>>, <<<<1, 1>>>>>>,
    <<"SBGGR10", "SBGGR10", NoneStr, <<66, 71, 49, 48>>, "RAW", FALSE, <<2, 2>>, <<<<4, 2>>>>>>,
    <<"SGBRG10", "SGBRG10", NoneStr, <<71, 66, 49, 48>>, "RAW", FALSE, <<2, 2>>, <<<<4, 2>>>>>>,
    <<"SGRBG10", "SGRBG10", NoneStr, <<66, 65, 49, 48>>, "RAW", FALSE, <<2, 2>>, <<<<4, 2>>>>>>,
    <<"SRGGB10", "SRGGB10", NoneStr, <<82, 71, 49, 48>>, "RAW", FALSE, <<2, 2>>, <<<<4, 2>>>>>>,
    <<"SBGGR10P", "SBGGR10P", NoneStr, <<112, 66, 65, 65>>, "RAW", TRUE, <<4, 2>>, <<<<5, 4>>>>>>,
    <<"SGBRG10P", "SGBRG10P", NoneStr, <<112, 71, 65, 65>>, "RAW", TRUE, <<4, 2>>, <<<<5, 4>>>>>>,
    <<"SGRBG10P", "SGRBG10P", NoneStr, <<112, 103, 65, 65>>, "RAW", TRUE, <<4, 2>>, <<<<5, 4>>>>>>,
    <<"SRGGB10P", "SRGGB10P", NoneStr, <<112, 82, 65, 65>>, "RAW", TRUE, <<4, 2>>, <<<<5, 4>>>>>>,
    <<"SBGGR12", "SBGGR12", NoneStr, <<66, 71, 49, 50>>, "RAW", FALSE, <<2, 2>>, <<<<4, 2>>>>>>,
    <<"SGBRG12", "SGBRG12", NoneStr, <<71, 66, 49, 50>>, "RAW", FALSE, <<2, 2>>, <<<<4, 2>>>>>>,
    <<"SGRBG12", "SGRBG12", NoneStr, <<66, 65, 49, 50>>, "RAW", FALSE, <<2, 2>>, <<<<4, 2>>>>>>,
    <<"SRGGB12", "SRGGB12", NoneStr, <<82, 71, 49, 50>>, "RAW", FALSE, <<2, 2>>, <<<<4, 2>>>>>>,
    <<"SBGGR12P", "SBGGR12P", NoneStr, <<112, 66, 67, 67>>, "RAW", TRUE, <<2, 2>>, <<<<3, 2>>>>>>,
    <<"SGBRG12P", "SGBRG12P", NoneStr, <<112, 71, 67, 67>>, "RAW", TRUE, <<2, 2>>, <<<<3, 2>>>>>>,
    <<"SGRBG12P", "SGRBG12P", NoneStr, <<112, 103, 67, 67>>, "RAW", TRUE, <<2, 2>>, <<<<3, 2>>>>>>,
    <<"SRGGB12P", "SRGGB12P", NoneStr, <<112, 82, 67, 67>>, "RAW", TRUE, <<2, 2>>, <<<<3, 2>>>>>>,
    <<"SBGGR16", "SBGGR16", NoneStr, <<66, 89, 82, 50>>, "RAW", FALSE, <<2, 2>>, <<<<4, 2>>>>>>,
    <<"SGBRG16", "SGBRG16", NoneStr, <<71, 66, 49, 54>>, "RAW", FALSE, <<2, 2>>, <<<<4, 2>>>>>>,
    <<"SGRBG16", "SGRBG16", NoneStr, <<71, 82, 49, 54>>, "RAW", FALSE, <<2, 2>>, <<<<4, 2>>>>>>,
    <<"SRGGB16", "SRGGB16", NoneStr, <<82, 71, 49, 54>>, "RAW", FALSE, <<2, 2>>, <<<<4, 2>>>>>>,
    <<"MJPEG", "MJPEG", <<77, 74, 80, 71>>, <<77, 74, 80, 71>>, "YUV", FALSE, <<1, 1>>, <<<<1>>>>>>
  >>

\* PixelFormats.__FMT_LIST after __init_fmt_list: the PixelFormat values of
\* the class dictionary, in its order.  A format object is identified by
\* its position in this list.
FMT_LIST ==
    [i \in DOMAIN PixelFormats |->
        PixelFormat(PixelFormats[i][2], PixelFormats[i][3], PixelFormats[i][4],
                    PixelFormats[i][5], PixelFormats[i][6], PixelFormats[i][7],
                    PixelFormats[i][8])]

Formats == DOMAIN FMT_LIST

\* stride without the division by hsub
MutStrideNoHsub(f, width, plane, align) ==
    IF plane >= Len(FMT_LIST[f].planes) THEN Raise("RuntimeError")
    ELSE IF width % FMT_LIST[f].pixel_align[1] # 0 THEN Raise("AssertionError")
    ELSE LET pi == FMT_LIST[f].planes[plane + 1]
         IN  IF width % pi.pixels_per_block # 0 THEN Raise("AssertionError")
             ELSE Ok(_align_up((width \div pi.pixels_per_block) * pi.bytes_per_block, align))

\* stride that ignores align
MutStrideNoAlign(f, width, plane, align) ==
    IF plane >= Len(FMT_LIST[f].planes) THEN Raise("RuntimeError")
    ELSE IF width % FMT_LIST[f].pixel_align[1] # 0 THEN Raise("AssertionError")
    ELSE LET pi == FMT_LIST[f].planes[plane + 1]
             s1 == (width \div pi.pixels_per_block) * pi.bytes_per_block
         IN  IF width % pi.pixels_per_block # 0 THEN Raise("AssertionError")
             ELSE IF s1 % pi.hsub # 0 THEN Raise("AssertionError")
             ELSE Ok(s1 \div pi.hsub)

\* PixelFormat.stride(width, plane, align), of the format at position f
stride(f, width, plane, align) ==
    IF plane >= Len(FMT_LIST[f].planes) THEN Raise("RuntimeError")
    ELSE IF width % FMT_LIST[f].pixel_align[1] # 0 THEN Raise("AssertionError")
    ELSE LET pi == FMT_LIST[f].planes[plane + 1]
             s1 == (width \div pi.pixels_per_block) * pi.bytes_per_block
         IN  IF width % pi.pixels_per_block # 0 THEN Raise("AssertionError")
             ELSE IF s1 % pi.hsub # 0 THEN Raise("AssertionError")
             ELSE Ok(_align_up(s1 \div pi.hsub, align))

\* planesize without the division by vsub
MutPlanesizeNoVsub(f, stride_, height, plane) ==
    IF height % FMT_LIST[f].pixel_align[2] # 0 THEN Raise("AssertionError")
    ELSE IF plane >= Len(FMT_LIST[f].planes) THEN Raise("IndexError")
    ELSE LET pi == FMT_LIST[f].planes[plane + 1]
         IN  IF height % pi.vsub # 0 THEN Raise("AssertionError")
             ELSE Ok(stride_ * height)

\* PixelFormat.planesize(stride, height, plane)
planesize(f, stride_, height, plane) ==
    IF height % FMT_LIST[f].pixel_align[2] # 0 THEN Raise("AssertionError")
    ELSE IF plane >= Len(FMT_LIST[f].planes) THEN Raise("IndexError")
    ELSE LET pi == FMT_LIST[f].planes[plane + 1]
         IN  IF height % pi.vsub # 0 THEN Raise("AssertionError")
             ELSE Ok(stride_ * (height \div pi.vsub))

\* the loop of PixelFormat.framesize from plane i on, size accumulated so
\* far; an exception of stride or planesize ends the loop and propagates
RECURSIVE framesize_loop(_, _, _, _, _, _)
framesize_loop(f, width, height, align, i, size) ==
    IF i >= Len(FMT_LIST[f].planes) THEN Ok(size)
    ELSE LET st == stride(f, width, i, align)
         IN  IF ~st.ok THEN st
             ELSE LET ps == planesize(f, st.val, height, i)
                  IN  IF ~ps.ok THEN ps
                      ELSE framesize_loop(f, width, height, align, i + 1, size + ps.val)

\* framesize that uses the stride of plane 0 for every plane
MutFramesizeFirstStride(f, width, height, align) ==
    LET st == stride(f, width, 0, align)
        RECURSIVE loop(_, _)
        loop(i, size) ==
            IF i >= Len(FMT_LIST[f].planes) THEN Ok(size)
            ELSE LET ps == planesize(f, st.val, height, i)
                 IN  IF ~ps.ok THEN ps ELSE loop(i + 1, size + ps.val)
    IN  IF ~st.ok THEN st ELSE loop(0, 0)

\* PixelFormat.framesize(width, height, align)
framesize(f, width, height, align) == framesize_loop(f, width, height, align, 0, 0)

----------------------------------------------------------------------------
(* pixelformats.py: PixelFormats lookups.  next(f for f in __FMT_LIST if   *)
(* cond) returns the first match in list order and raises StopIteration    *)
(* when the generator is exhausted.                                        *)

Min(S) == CHOOSE x \in S : \A y \in S : x <= y

next(hits) == IF hits = {} THEN Raise("StopIteration") ELSE Ok(Min(hits))

\* find_v4l2_fourcc that compares the DRM fourcc
MutFindV4l2ByDrm(fourcc) ==
    next({f \in Formats : FMT_LIST[f].drm_fourcc = fourcc})

find_v4l2_fourcc(fourcc) ==
    next({f \in Formats : FMT_LIST[f].v4l2_fourcc = fourcc})

\* find_drm_fourcc written as next(..., None): None instead of StopIteration
MutFindDrmDefaultNone(fourcc) ==
    LET hits == {f \in Formats : FMT_LIST[f].drm_fourcc = fourcc}
    IN  IF hits = {} THEN Ok(None) ELSE Ok(Min(hits))

find_drm_fourcc(fourcc) ==
    next({f \in Formats : FMT_LIST[f].drm_fourcc = fourcc})

find_by_name(name) ==
    next({f \in Formats : FMT_LIST[f].name = name})

----------------------------------------------------------------------------
(* Inputs *)

Widths == 1..MaxWidth
Heights == 1..MaxHeight
Aligns == 1..MaxAlign
Planes == 0..MaxPlane
Strides == 0..MaxStride

\* code points drawn for 4-character strings: NUL, '2', '4', 'R', 'X', DEL,
\* 0x80, 0xFF and one character beyond 8 bits (U+0141)
FourccChars == {0, 50, 52, 82, 88, 127, 128, 255, 321}

\* code points drawn for strings of other lengths: 'A', 'E'
OtherChars == {65, 69}

FourccStrings ==
    [1..4 -> FourccChars]
    \cup UNION {[1..n -> OtherChars] : n \in (0..MaxStrLen) \ {4}}

\* names looked up: every registered name, every class field name, and
\* names no format has
NameKeys ==
    {FMT_LIST[f].name : f \in Formats}
    \cup {PixelFormats[f][1] : f \in Formats}
    \cup {"", "rgb888", "RGB88", "NV13", "XR24"}

\* fourccs looked up: every DRM and V4L2 fourcc of the registry, None, and
\* values no format has
FourccKeys ==
    {FMT_LIST[f].drm_fourcc : f \in Formats}
    \cup {FMT_LIST[f].v4l2_fourcc : f \in Formats}
    \cup {None, IntOf(0), IntOf(1), str_to_fourcc(<<88, 88, 88, 88>>).val,
          str_to_fourcc(<<52, 50, 82, 88>>).val}

----------------------------------------------------------------------------
(* The client *)

Init ==
    /\ pc = "idle"
    /\ op = "none"
    /\ args = <<>>
    /\ ret = <<>>
    /\ prev = NoCall

\* a call made from idle
Call(o, a, r) ==
    /\ pc' = "returned"
    /\ op' = o
    /\ args' = a
    /\ ret' = r
    /\ prev' = NoCall

\* a call that takes the value the last call returned
Chain(o, a, r) ==
    /\ pc' = "returned"
    /\ op' = o
    /\ args' = a
    /\ ret' = r
    /\ prev' = [op |-> op, args |-> args, ret |-> ret]

\* the client drops the result
Return ==
    /\ pc = "returned"
    /\ pc' = "idle"
    /\ op' = "none"
    /\ args' = <<>>
    /\ ret' = <<>>
    /\ prev' = NoCall

CallStride ==
    /\ pc = "idle"
    /\ \E f \in Formats, width \in Widths, plane \in Planes, align \in Aligns :
            Call("stride",
                 [fmt |-> f, width |-> width, plane |-> plane, align |-> align],
                 stride(f, width, plane, align))

\* planesize with a stride of the caller's choice (conv.py: bytesperline)
CallPlanesize ==
    /\ pc = "idle"
    /\ \E f \in Formats, s \in Strides, height \in Heights, plane \in Planes :
            Call("planesize",
                 [fmt |-> f, stride |-> s, height |-> height, plane |-> plane],
                 planesize(f, s, height, plane))

\* planesize with the stride that stride() returned for the same plane
\* (test_formats.py run_data, print-fmt.py)
CallPlanesizeOfStride ==
    /\ pc = "returned"
    /\ prev.op = "none"
    /\ op = "stride"
    /\ ret.ok
    /\ \E height \in Heights :
        Chain("planesize",
              [fmt |-> args.fmt, stride |-> ret.val, height |-> height, plane |-> args.plane],
              planesize(args.fmt, ret.val, height, args.plane))

CallFramesize ==
    /\ pc = "idle"
    /\ \E f \in Formats, width \in Widths, height \in Heights, align \in Aligns :
            Call("framesize",
                 [fmt |-> f, width |-> width, height |-> height, align |-> align],
                 framesize(f, width, height, align))

CallStrToFourcc ==
    /\ pc = "idle"
    /\ \E s \in FourccStrings :
            Call("str_to_fourcc", [s |-> s], str_to_fourcc(s))

\* fourcc_to_str of the value str_to_fourcc returned
CallFourccToStr ==
    /\ pc = "returned"
    /\ prev.op = "none"
    /\ op = "str_to_fourcc"
    /\ ret.ok
    /\ Chain("fourcc_to_str", [fourcc |-> ret.val], fourcc_to_str(ret.val))

CallFindByName ==
    /\ pc = "idle"
    /\ \E name \in NameKeys :
            Call("find_by_name", [name |-> name], find_by_name(name))

CallFindDrmFourcc ==
    /\ pc = "idle"
    /\ \E fourcc \in FourccKeys :
            Call("find_drm_fourcc", [fourcc |-> fourcc], find_drm_fourcc(fourcc))

CallFindV4l2Fourcc ==
    /\ pc = "idle"
    /\ \E fourcc \in FourccKeys :
            Call("find_v4l2_fourcc", [fourcc |-> fourcc], find_v4l2_fourcc(fourcc))

\* geometry queries
NextGeometry ==
    \/ CallStride
    \/ CallPlanesize
    \/ CallPlanesizeOfStride
    \/ CallFramesize
    \/ Return

SpecGeometry == Init /\ [][NextGeometry]_vars

\* the fourcc codec
NextFourcc ==
    \/ CallStrToFourcc
    \/ CallFourccToStr
    \/ Return

SpecFourcc == Init /\ [][NextFourcc]_vars

\* registry lookups
NextRegistry ==
    \/ CallFindByName
    \/ CallFindDrmFourcc
    \/ CallFindV4l2Fourcc
    \/ Return

SpecRegistry == Init /\ [][NextRegistry]_vars

----------------------------------------------------------------------------
(* pixelformats.py: align_pixels, dumb_size, validate_formats *)

\* PixelFormat.align_pixels(width, height)
align_pixels(f, width, height) ==
    Ok(<<_align_up(width, FMT_LIST[f].pixel_align[1]),
         _align_up(height, FMT_LIST[f].pixel_align[2])>>)

\* the end of dumb_size, stride_ being the outcome of self.stride
dumb_triple(pi, height, stride_) ==
    IF ~stride_.ok THEN stride_
    ELSE IF stride_.val % pi.bytes_per_block # 0 THEN Raise("AssertionError")
    ELSE Ok(<<stride_.val \div pi.bytes_per_block, height \div pi.vsub,
              pi.bytes_per_block * 8>>)

\* dumb_size that keeps the height of the frame for every plane
Mut_dumb_size_no_vsub(f, width, height, plane, align) ==
    IF height % FMT_LIST[f].pixel_align[2] # 0 THEN Raise("AssertionError")
    ELSE IF plane >= Len(FMT_LIST[f].planes) THEN Raise("IndexError")
    ELSE IF ~stride(f, width, plane, align).ok THEN stride(f, width, plane, align)
    ELSE Ok(<<stride(f, width, plane, align).val
                  \div FMT_LIST[f].planes[plane + 1].bytes_per_block,
              height, FMT_LIST[f].planes[plane + 1].bytes_per_block * 8>>)

\* PixelFormat.dumb_size(width, height, plane, align)
dumb_size(f, width, height, plane, align) ==
    IF height % FMT_LIST[f].pixel_align[2] # 0 THEN Raise("AssertionError")
    ELSE IF plane >= Len(FMT_LIST[f].planes) THEN Raise("IndexError")
    ELSE IF height % FMT_LIST[f].planes[plane + 1].vsub # 0 THEN Raise("AssertionError")
    ELSE dumb_triple(FMT_LIST[f].planes[plane + 1], height,
                     stride(f, width, plane, align))

\* PixelFormats.__dict__.keys(): the class fields holding a format and the
\* static methods
ClassDictKeys ==
    {PixelFormats[f][1] : f \in Formats}
        \cup {"find_v4l2_fourcc", "find_drm_fourcc", "find_by_name", "get_formats"}

\* validate_formats(): the first assertion that fails, or None
validate_formats ==
    IF \E f \in Formats : FMT_LIST[f].name \notin ClassDictKeys
    THEN Raise("AssertionError")
    ELSE IF \E f, g \in Formats : f # g /\ FMT_LIST[f].name = FMT_LIST[g].name
    THEN Raise("AssertionError")
    ELSE IF \E f, g \in Formats :
                f # g /\ FMT_LIST[f].drm_fourcc \notin {None, <<>>}
                      /\ FMT_LIST[f].drm_fourcc = FMT_LIST[g].drm_fourcc
    THEN Raise("AssertionError")
    ELSE IF \E f, g \in Formats :
                f # g /\ FMT_LIST[f].v4l2_fourcc \notin {None, <<>>}
                      /\ FMT_LIST[f].v4l2_fourcc = FMT_LIST[g].v4l2_fourcc
    THEN Raise("AssertionError")
    ELSE Ok(None)

CallAlignPixels ==
    /\ pc = "idle"
    /\ \E f \in Formats, width \in Widths, height \in Heights :
            Call("align_pixels", [fmt |-> f, width |-> width, height |-> height],
                 align_pixels(f, width, height))

\* framesize of the size that align_pixels returned
CallFramesizeOfAligned ==
    /\ pc = "returned"
    /\ prev.op = "none"
    /\ op = "align_pixels"
    /\ ret.ok
    /\ Chain("framesize",
             [fmt |-> args.fmt, width |-> ret.val[1], height |-> ret.val[2], align |-> 1],
             framesize(args.fmt, ret.val[1], ret.val[2], 1))

\* dumb_size with the default align (test_formats.py run_data)
CallDumbSize ==
    /\ pc = "idle"
    /\ \E f \in Formats, width \in Widths, height \in Heights, plane \in Planes :
            Call("dumb_size",
                 [fmt |-> f, width |-> width, height |-> height, plane |-> plane,
                  align |-> 1],
                 dumb_size(f, width, height, plane, 1))

CallValidateFormats ==
    /\ pc = "idle"
    /\ Call("validate_formats", <<>>, validate_formats)

\* sizes for allocation, and the registry's self-check
NextSizing ==
    \/ CallAlignPixels
    \/ CallFramesizeOfAligned
    \/ CallDumbSize
    \/ CallValidateFormats
    \/ Return

SpecSizing == Init /\ [][NextSizing]_vars

----------------------------------------------------------------------------
(* Geometry claims, checked under SpecGeometry *)

\* the plane of the format a stride or planesize call is about
PlaneInRange == args.plane < Len(FMT_LIST[args.fmt].planes)
PlaneInfo == FMT_LIST[args.fmt].planes[args.plane + 1]

\* planesize(stride(width, p, align), height, p) of plane p, when both accept
C1_PlaneAccepted(f, w, h, a, p) ==
    /\ stride(f, w, p, a).ok
    /\ planesize(f, stride(f, w, p, a).val, h, p).ok
C1_PlaneBytes(f, w, h, a, p) == planesize(f, stride(f, w, p, a).val, h, p).val

\* C1: for every registered format and every (width, height, align) that
\* stride and planesize accept for each plane, framesize(width, height,
\* align) returns the sum over the planes p of
\* planesize(stride(width, p, align), height, p).
C1_FramesizeIsSumOfPlanes ==
    op = "framesize" =>
        LET f == args.fmt
            w == args.width
            h == args.height
            a == args.align
            n == Len(FMT_LIST[f].planes)
            B(p) == C1_PlaneBytes(f, w, h, a, p)
        IN  (\A p \in 0..(n - 1) : C1_PlaneAccepted(f, w, h, a, p)) =>
                /\ ret.ok
                /\ ret.val = (IF n = 1 THEN B(0)
                              ELSE IF n = 2 THEN B(0) + B(1)
                              ELSE B(0) + B(1) + B(2))

\* framesize of a three-plane format whose chroma strides differ from the
\* luma stride: YUV420 4x2 is 4*2 + 2*1 + 2*1 bytes
C1_Witness ==
    /\ op = "framesize"
    /\ FMT_LIST[args.fmt].name = "YUV420"
    /\ args.width = 4 /\ args.height = 2 /\ args.align = 1
    /\ ret.ok /\ ret.val = 12

\* C2 as stated: for every plane in range, width >= 1 and align >= 1,
\* stride returns ceil(width / pixels_per_block) * bytes_per_block rounded
\* up to the next multiple of align (no hsub, no width rejected).
C2_StrideIsCeilTimesBytes ==
    (op = "stride" /\ PlaneInRange) =>
        /\ ret.ok
        /\ ret.val = _align_up(_div_round_up(args.width, PlaneInfo.pixels_per_block)
                                   * PlaneInfo.bytes_per_block,
                               args.align)

\* C2 amended: for every plane in range and align >= 1, a width that is a
\* multiple of the format's pixel alignment and of pixels_per_block, with
\* width / pixels_per_block * bytes_per_block a multiple of hsub, gets
\* (width / pixels_per_block * bytes_per_block) / hsub rounded up to the
\* next multiple of align; every other width >= 1 is rejected with an
\* AssertionError.
C2_StrideDividesByHsub ==
    (op = "stride" /\ PlaneInRange) =>
        LET w == args.width
            pi == PlaneInfo
            accepted ==
                /\ w % FMT_LIST[args.fmt].pixel_align[1] = 0
                /\ w % pi.pixels_per_block = 0
                /\ ((w \div pi.pixels_per_block) * pi.bytes_per_block) % pi.hsub = 0
            base == ((w \div pi.pixels_per_block) * pi.bytes_per_block) \div pi.hsub
        IN  IF accepted
            THEN /\ ret.ok
                 /\ ret.val % args.align = 0
                 /\ base <= ret.val
                 /\ ret.val < base + args.align
            ELSE ~ret.ok /\ ret.err = "AssertionError"

\* the chroma plane of NV12: 4 pixels are 4 * 2 / 2 = 4 bytes, 6 at align 3
C2_Witness ==
    /\ op = "stride"
    /\ FMT_LIST[args.fmt].name = "NV12"
    /\ args.plane = 1 /\ args.width = 4 /\ args.align = 3
    /\ ret.ok /\ ret.val = 6

\* C3: for every plane of a registered format and every width and height
\* that are multiples of the format's pixel alignment, stride(width, plane)
\* is (width / pixels_per_block) * bytes_per_block / hsub and
\* planesize(stride, height, plane) is stride * (height / vsub).
C3_GeometryOfAlignedSizes ==
    /\ (/\ op = "stride"
        /\ PlaneInRange
        /\ args.align = 1
        /\ args.width % FMT_LIST[args.fmt].pixel_align[1] = 0) =>
            /\ ret.ok
            /\ ret.val * PlaneInfo.pixels_per_block * PlaneInfo.hsub
                   = args.width * PlaneInfo.bytes_per_block
    /\ (/\ op = "planesize"
        /\ prev.op = "stride"
        /\ prev.args.align = 1
        /\ args.height % FMT_LIST[args.fmt].pixel_align[2] = 0) =>
            /\ ret.ok
            /\ ret.val * PlaneInfo.vsub = args.stride * args.height

\* C4 as stated: for every plane, stride >= 0 and height >= 1, planesize
\* returns stride * ceil(height / vsub), also for heights that are not a
\* multiple of vsub.
C4_PlanesizeIsStrideTimesCeil ==
    (op = "planesize" /\ PlaneInRange) =>
        /\ ret.ok
        /\ ret.val = args.stride * _div_round_up(args.height, PlaneInfo.vsub)

\* C4 amended: for every plane, stride >= 0 and height >= 1, a height that
\* is a multiple of the format's vertical pixel alignment and of the
\* plane's vsub gets stride * (height / vsub); every other height is
\* rejected with an AssertionError.
C4_PlanesizeOfAcceptedHeight ==
    (op = "planesize" /\ PlaneInRange) =>
        IF /\ args.height % FMT_LIST[args.fmt].pixel_align[2] = 0
           /\ args.height % PlaneInfo.vsub = 0
        THEN /\ ret.ok
             /\ ret.val * PlaneInfo.vsub = args.stride * args.height
        ELSE ~ret.ok /\ ret.err = "AssertionError"

\* the chroma plane of NV12 (vsub 2): 4 rows of stride 3 are 6 bytes
C4_Witness ==
    /\ op = "planesize"
    /\ FMT_LIST[args.fmt].name = "NV12"
    /\ args.plane = 1 /\ args.height = 4 /\ args.stride = 3
    /\ ret.ok /\ ret.val = 6

\* C5: for every registered format, plane, accepted width and align >= 1,
\* stride(width, plane, align) is a multiple of align and is not smaller
\* than stride(width, plane, 1).
C5_StrideIsAligned ==
    (op = "stride" /\ ret.ok) =>
        /\ ret.val % args.align = 0
        /\ stride(args.fmt, args.width, args.plane, 1).ok
        /\ ret.val >= stride(args.fmt, args.width, args.plane, 1).val

\* a stride that the alignment raised: SRGGB10P, 4 pixels in 5 bytes, align 4
C5_Witness ==
    /\ op = "stride"
    /\ FMT_LIST[args.fmt].name = "SRGGB10P"
    /\ args.width = 4 /\ args.align = 4
    /\ ret.ok /\ ret.val = 8
    /\ stride(args.fmt, args.width, args.plane, 1).val = 5

\* C6 as stated: for all align values a1 <= a2,
\* stride(width, plane, a1) <= stride(width, plane, a2).
C6_StrideMonotoneInAlign ==
    (op = "stride" /\ ret.ok) =>
        \A a2 \in Aligns :
            args.align <= a2 =>
                ret.val <= stride(args.fmt, args.width, args.plane, a2).val

\* C6 amended: for all align values a1, a2 >= 1 with a2 a multiple of a1,
\* stride(width, plane, a1) <= stride(width, plane, a2).
C6_StrideMonotoneInAlignMultiples ==
    (op = "stride" /\ ret.ok) =>
        \A a2 \in Aligns :
            a2 % args.align = 0 =>
                /\ stride(args.fmt, args.width, args.plane, a2).ok
                /\ ret.val <= stride(args.fmt, args.width, args.plane, a2).val

\* a stride that grows from align 2 to align 4
C6_Witness ==
    /\ op = "stride"
    /\ ret.ok
    /\ args.align = 2
    /\ ret.val = 6
    /\ stride(args.fmt, args.width, args.plane, 4).val = 8

----------------------------------------------------------------------------
(* Fourcc claims, checked under SpecFourcc *)

EightBit(s) == \A i \in DOMAIN s : s[i] \in 0..255

\* 'XR24'
XR24 == <<88, 82, 50, 52>>

\* C7: for every 4-character string s of 8-bit characters,
\* fourcc_to_str(str_to_fourcc(s)) = s, where str_to_fourcc(s) is
\* b0 | b1<<8 | b2<<16 | b3<<24, the number whose base-256 digits are
\* b0..b3 ('XR24' <-> 0x34325258 = 875713112).
C7_FourccRoundTrip ==
    /\ (op = "str_to_fourcc" /\ Len(args.s) = 4 /\ EightBit(args.s)) =>
            /\ ret.ok
            /\ ret.val = Norm(args.s)
            /\ args.s = XR24 => NatOf(ret.val) = 875713112
    /\ (op = "fourcc_to_str" /\ prev.op = "str_to_fourcc" /\ EightBit(prev.args.s)) =>
            /\ ret.ok
            /\ ret.val = prev.args.s

\* the round trip of a string with a character above 127 in the top byte
C7_Witness ==
    /\ op = "fourcc_to_str"
    /\ prev.op = "str_to_fourcc"
    /\ prev.args.s = <<88, 82, 50, 255>>
    /\ ret.ok /\ ret.val = <<88, 82, 50, 255>>

\* C8: str_to_fourcc raises ValueError and returns no value for every
\* string whose length is not exactly 4, shorter or longer.
C8_StrToFourccRejectsLength ==
    (op = "str_to_fourcc" /\ Len(args.s) # 4) =>
        ~ret.ok /\ ret.err = "ValueError"

\* 'AEAEA', a string of 5 characters, is rejected
C8_Witness ==
    /\ op = "str_to_fourcc"
    /\ Len(args.s) = 5
    /\ ~ret.ok /\ ret.err = "ValueError"

----------------------------------------------------------------------------
(* Registry claims, checked under SpecRegistry *)

C10_LookupIsExact ==
    /\ op = "find_by_name" =>
           IF \E f \in Formats : FMT_LIST[f].name = args.name
           THEN ret.ok /\ ret.val \in Formats /\ FMT_LIST[ret.val].name = args.name
           ELSE ~ret.ok /\ ret.err = "StopIteration"
    /\ op = "find_drm_fourcc" =>
           IF \E f \in Formats : FMT_LIST[f].drm_fourcc = args.fourcc
           THEN ret.ok /\ ret.val \in Formats /\ FMT_LIST[ret.val].drm_fourcc = args.fourcc
           ELSE ~ret.ok /\ ret.err = "StopIteration"
    /\ op = "find_v4l2_fourcc" =>
           IF \E f \in Formats : FMT_LIST[f].v4l2_fourcc = args.fourcc
           THEN ret.ok /\ ret.val \in Formats /\ FMT_LIST[ret.val].v4l2_fourcc = args.fourcc
           ELSE ~ret.ok /\ ret.err = "StopIteration"

\* 'XXXX' is the DRM fourcc of no format: the lookup raises
C10_Witness ==
    /\ op = "find_drm_fourcc"
    /\ args.fourcc = str_to_fourcc(<<88, 88, 88, 88>>).val
    /\ ~ret.ok /\ ret.err = "StopIteration"


----------------------------------------------------------------------------
(* conv: numpy arrays, the options dict and the build.                     *)
(*                                                                         *)
(* A one-dimensional uint8 array is the sequence of its bytes, a           *)
(* two-dimensional array the sequence of its rows, and an image of shape   *)
(* (h, w, 3) is kept flattened in C order with its shape.                  *)

\* the call raised exception e with message m and returned nothing
RaiseMsg(e, m) == [ok |-> FALSE, val |-> <<>>, err |-> e, msg |-> m]

\* ndarray.reshape to a shape the array's size does not fit
ReshapeError == RaiseMsg("ValueError", "cannot reshape array")

\* an assignment between slices whose shapes do not fit
BroadcastError == RaiseMsg("ValueError", "could not broadcast")

\* an array of shape (h, w, 3) and dtype uint8
Image(h, w, data) == [shape |-> <<h, w, 3>>, data |-> data]

\* arr[:n] of a one-dimensional array: the slice stops at the array's end
Prefix(arr, n) == SubSeq(arr, 1, IF n < Len(arr) THEN n ELSE Len(arr))

\* arr[n:] of a one-dimensional array
Suffix(arr, n) == SubSeq(arr, (IF n < Len(arr) THEN n ELSE Len(arr)) + 1, Len(arr))

\* options is None, or a dict kept as its set of <<key, value>> items
OptNone == [isNone |-> TRUE, items |-> {}]

Dict(items) == [isNone |-> FALSE, items |-> items]

\* `if options`: None and the empty dict are falsy
truthy(options) == ~options.isNone /\ options.items # {}

\* options.get(key, default)
get(options, key, default) ==
    IF \E it \in options.items : it[1] = key
    THEN (CHOOSE it \in options.items : it[1] = key)[2]
    ELSE default

\* PixelFormats.<field>: the format object a class field holds
Attr(field) == CHOOSE f \in DOMAIN PixelFormats : PixelFormats[f][1] = field

\* x >> n and x & (2^n - 1) of a non-negative int
Pow2(n) == 2 ^ n

shr(x, n) == x \div Pow2(n)

lowbits(x, n) == x % Pow2(n)

\* a read of data[idx] in code compiled by numba, which checks no index:
\* an index past the end of the array reads whatever memory holds there
\* (env.beyond), unless the access faults (env.beyond = -1)
nb_read(env, data, idx) == IF idx < Len(data) THEN data[idx + 1] ELSE env.beyond

\* the process died of the out-of-bounds access
Fault == RaiseMsg("SIGSEGV", "out-of-bounds read")

----------------------------------------------------------------------------
(* conv/rgb.py *)

MutRgbNoFlip(f, w, h, data) ==
    IF f \in {Attr("RGB888"), Attr("BGR888")} /\ Len(data) = h * w * 3
    THEN Ok(Image(h, w, data))
    ELSE RaiseMsg("RuntimeError", "Unsupported RGB format")

MutRgbFlipAll(f, w, h, data) ==
    IF f \in {Attr("RGB888"), Attr("BGR888")} /\ Len(data) = h * w * 3
    THEN Ok(Image(h, w, [j \in 1..(h * w * 3) |->
                             data[3 * ((j - 1) \div 3) + (2 - ((j - 1) % 3)) + 1]]))
    ELSE RaiseMsg("RuntimeError", "Unsupported RGB format")

\* rgb_to_bgr888(fmt, w, h, data).  Output byte j (1-based) is component
\* (j - 1) % 3 of pixel (j - 1) \div 3.
rgb_to_bgr888(f, w, h, data) ==
    LET n == h * w
        p(j) == (j - 1) \div 3
        c(j) == (j - 1) % 3
        \* the little-endian 32-bit word of pixel q, in two 16-bit halves
        lo(q) == data[4 * q + 1] + 256 * data[4 * q + 2]
        hi(q) == data[4 * q + 3] + 256 * data[4 * q + 4]
        \* (v >> 10 * k) & 0x3ff of that word
        field(q, k) ==
            IF k = 0 THEN lowbits(lo(q), 10)
            ELSE IF k = 1 THEN lowbits(shr(lo(q), 10) + 64 * hi(q), 10)
            ELSE lowbits(shr(hi(q), 4), 10)
    IN  IF f = Attr("RGB888") THEN
            IF Len(data) # n * 3 THEN ReshapeError
            ELSE Ok(Image(h, w, [j \in 1..(n * 3) |-> data[3 * p(j) + (2 - c(j)) + 1]]))
        ELSE IF f = Attr("BGR888") THEN
            IF Len(data) # n * 3 THEN ReshapeError
            ELSE Ok(Image(h, w, data))
        ELSE IF f \in {Attr("ARGB8888"), Attr("XRGB8888")} THEN
            IF Len(data) # n * 4 THEN ReshapeError
            ELSE Ok(Image(h, w, [j \in 1..(n * 3) |-> data[4 * p(j) + (2 - c(j)) + 1]]))
        ELSE IF f \in {Attr("ABGR8888"), Attr("XBGR8888")} THEN
            IF Len(data) # n * 4 THEN ReshapeError
            ELSE Ok(Image(h, w, [j \in 1..(n * 3) |-> data[4 * p(j) + c(j) + 1]]))
        ELSE IF f = Attr("XBGR2101010") THEN
            IF Len(data) # n * 4 THEN ReshapeError
            ELSE Ok(Image(h, w, [j \in 1..(n * 3) |-> shr(field(p(j), c(j)), 10 - 8) % 256]))
        ELSE RaiseMsg("RuntimeError", "Unsupported RGB format")

----------------------------------------------------------------------------
(* conv/yuv.py, conv/yuv_nb.py *)

\* A float coefficient c is kept to twelve decimals as <<a, b>> with
\* c = a / 10^6 + b / 10^12, so that every product with a sample fits the
\* integers of the model checker.
FpScale == 1000000

\* Where the exact dot product lies within FpEps / 10^12 of an integer, the
\* double-precision result falls on either side of it, depending on the
\* order in which the build (np.dot, the numba kernel) rounds the partial
\* sums; env.fp is the side, +FpEps or -FpEps.
FpEps == 1000

MutYcbcrFullOnly ==
    [bt601 |->
        [limited |->
            [offsets |-> <<0, -128, -128>>,
             matrix |-> << << <<1000000, 0>>, <<1000000, 0>>, <<1000000, 0>> >>,
                           << <<0, 0>>, <<-344136, -720836>>, <<1772014, 953841>> >>,
                           << <<1401998, 931868>>, <<-714152, -742809>>, <<0, 0>> >> >>],
         full |->
            [offsets |-> <<0, -128, -128>>,
             matrix |-> << << <<1000000, 0>>, <<1000000, 0>>, <<1000000, 0>> >>,
                           << <<0, 0>>, <<-344136, -720836>>, <<1772014, 953841>> >>,
                           << <<1401998, 931868>>, <<-714152, -742809>>, <<0, 0>> >> >>]]]

\* YCBCR_VALUES[encoding][range]
YCBCR_VALUES ==
    [bt601 |->
        [limited |->
            [offsets |-> <<-16, -128, -128>>,
             matrix |-> << << <<1164385, 442893>>, <<1164385, 442893>>, <<1164385, 442893>> >>,
                           << <<0, 0>>, <<-391775, -387198>>, <<2017227, 435721>> >>,
                           << <<1596032, 654307>>, <<-812985, -427634>>, <<0, 0>> >> >>],
         full |->
            [offsets |-> <<0, -128, -128>>,
             matrix |-> << << <<1000000, 0>>, <<1000000, 0>>, <<1000000, 0>> >>,
                           << <<0, 0>>, <<-344136, -720836>>, <<1772014, 953841>> >>,
                           << <<1401998, 931868>>, <<-714152, -742809>>, <<0, 0>> >> >>]]]

Mut_get_conversion_matrix_full(options) ==
    LET color_range == IF truthy(options) THEN get(options, "range", "full") ELSE "full"
        color_encoding == IF truthy(options) THEN get(options, "encoding", "bt601") ELSE "bt601"
    IN  IF color_encoding \notin DOMAIN YCBCR_VALUES
        THEN RaiseMsg("KeyError", color_encoding)
        ELSE IF color_range \notin DOMAIN YCBCR_VALUES[color_encoding]
        THEN RaiseMsg("KeyError", color_range)
        ELSE Ok(YCBCR_VALUES[color_encoding][color_range])

\* _get_conversion_matrix(options); a key missing from the table is a KeyError
_get_conversion_matrix(options) ==
    LET color_range == IF truthy(options) THEN get(options, "range", "limited") ELSE "limited"
        color_encoding == IF truthy(options) THEN get(options, "encoding", "bt601") ELSE "bt601"
    IN  IF color_encoding \notin DOMAIN YCBCR_VALUES
        THEN RaiseMsg("KeyError", color_encoding)
        ELSE IF color_range \notin DOMAIN YCBCR_VALUES[color_encoding]
        THEN RaiseMsg("KeyError", color_range)
        ELSE Ok(YCBCR_VALUES[color_encoding][color_range])

\* np.clip(x, 0, 255)
clip(x) == IF x < 0 THEN 0 ELSE IF x > 255 THEN 255 ELSE x

\* output component j (0..2) of one pixel: the dot product of
\* (y, u, v) + offset with column j of the matrix, clipped to 0..255 and
\* truncated to uint8
ycbcr_component(env, conv, yuv, j) ==
    LET t(i) == yuv[i] + conv.offsets[i]
        a == t(1) * conv.matrix[1][j + 1][1] + t(2) * conv.matrix[2][j + 1][1]
                 + t(3) * conv.matrix[3][j + 1][1]
        b == t(1) * conv.matrix[1][j + 1][2] + t(2) * conv.matrix[2][j + 1][2]
                 + t(3) * conv.matrix[3][j + 1][2]
    IN  clip((a + ((b + env.fp) \div FpScale)) \div FpScale)

\* the image whose pixel (row, col) is converted from the samples at the
\* 0-based buffer indices Y(row, col), U(row, col), V(row, col)
ycbcr_image(env, conv, data, w, h, Y(_, _), U(_, _), V(_, _)) ==
    Image(h, w, [j \in 1..(h * w * 3) |->
        LET row == ((j - 1) \div 3) \div w
            col == ((j - 1) \div 3) % w
        IN  ycbcr_component(env, conv,
                            << nb_read(env, data, Y(row, col)),
                               nb_read(env, data, U(row, col)),
                               nb_read(env, data, V(row, col)) >>,
                            (j - 1) % 3)])

\* ycbcr_to_bgr888 applied to the yuv array the numpy path gathered, or the
\* pixel loop of a numba kernel: the same arithmetic on the samples read
yuv_convert(env, options, data, w, h, limit, Y(_, _), U(_, _), V(_, _)) ==
    LET conv == _get_conversion_matrix(options)
    IN  IF ~conv.ok THEN conv
        ELSE IF limit > Len(data) /\ env.beyond = -1 THEN Fault
        ELSE Ok(ycbcr_image(env, conv.val, data, w, h, Y, U, V))

\* yuyv_to_bgr888(data, w, h, options)
yuyv_to_bgr888(env, data, w, h, options) ==
    LET Y(row, col) == row * w * 2 + 2 * col
        U(row, col) == row * w * 2 + 4 * (col \div 2) + 1
        V(row, col) == row * w * 2 + 4 * (col \div 2) + 3
        \* the kernel steps over pairs: an odd width reads a whole last pair
        pairs == (w + 1) \div 2
        limit == IF h = 0 \/ w = 0 THEN 0 ELSE (h - 1) * w * 2 + 4 * pairs
    IN  IF env.USE_NUMBA
        THEN yuv_convert(env, options, data, w, h, limit, Y, U, V)
        ELSE IF Len(data) # h * ((w \div 2) * 4) THEN ReshapeError
        ELSE IF w % 2 # 0 THEN BroadcastError
        ELSE yuv_convert(env, options, data, w, h, 0, Y, U, V)

\* uyvy_to_bgr888(data, w, h, options)
uyvy_to_bgr888(env, data, w, h, options) ==
    LET Y(row, col) == row * w * 2 + 2 * col + 1
        U(row, col) == row * w * 2 + 4 * (col \div 2)
        V(row, col) == row * w * 2 + 4 * (col \div 2) + 2
        pairs == (w + 1) \div 2
        limit == IF h = 0 \/ w = 0 THEN 0 ELSE (h - 1) * w * 2 + 4 * pairs
    IN  IF env.USE_NUMBA
        THEN yuv_convert(env, options, data, w, h, limit, Y, U, V)
        ELSE IF Len(data) # h * ((w \div 2) * 4) THEN ReshapeError
        ELSE IF w % 2 # 0 THEN BroadcastError
        ELSE yuv_convert(env, options, data, w, h, 0, Y, U, V)

\* nv12_to_bgr888 that takes Cr for Cb and Cb for Cr
Mut_nv12_swap_uv(env, data, w, h, options) ==
    LET Y(row, col) == row * w + col
        U(row, col) == w * h + (row \div 2) * w + (col \div 2) * 2 + 1
        V(row, col) == w * h + (row \div 2) * w + (col \div 2) * 2
    IN  IF Len(data) # w * h + (h \div 2) * (w \div 2) * 2 THEN ReshapeError
        ELSE yuv_convert(env, options, data, w, h, 0, Y, U, V)

\* nv12_to_bgr888(data, w, h, options)
nv12_to_bgr888(env, data, w, h, options) ==
    LET Y(row, col) == row * w + col
        \* the numpy path indexes the chroma rows of the reshaped plane 2
        \* (w // 2 pairs each), the numba kernel steps rows by w
        UV(row, col) ==
            IF env.USE_NUMBA
            THEN w * h + (row \div 2) * w + (col \div 2) * 2
            ELSE w * h + (row \div 2) * ((w \div 2) * 2) + (col \div 2) * 2
        U(row, col) == UV(row, col)
        V(row, col) == UV(row, col) + 1
        limit == IF h = 0 \/ w = 0 THEN 0
                 ELSE w * h + ((h - 1) \div 2) * w + ((w - 1) \div 2) * 2 + 2
    IN  IF env.USE_NUMBA
        THEN yuv_convert(env, options, data, w, h, limit, Y, U, V)
        ELSE IF Len(Prefix(data, w * h)) # h * w THEN ReshapeError
        ELSE IF Len(Suffix(data, w * h)) # (h \div 2) * (w \div 2) * 2 THEN ReshapeError
        ELSE IF w % 2 # 0 \/ h % 2 # 0 THEN BroadcastError
        ELSE yuv_convert(env, options, data, w, h, 0, Y, U, V)

Mut_y8_default_limited(env, data, w, h, options) ==
    LET color_range == IF truthy(options) THEN get(options, "range", "limited") ELSE "limited"
        y(v) == IF color_range = "limited" THEN clip(((v - 16) * 255) \div 219) ELSE v
    IN  IF Len(data) # h * w THEN ReshapeError
        ELSE Ok(Image(h, w, [j \in 1..(h * w * 3) |-> y(data[((j - 1) \div 3) + 1])]))

\* y8_to_bgr888(data, w, h, options).  (y - 16) * 255 / 219 in float32 is
\* exact up to a rounding far smaller than the distance 1 / 219 of a
\* non-integer quotient from the next integer, so clipping and truncating
\* it is the clipped integer floor.
y8_to_bgr888(env, data, w, h, options) ==
    LET color_range == IF truthy(options) THEN get(options, "range", "full") ELSE "full"
        y(v) == IF color_range = "limited" THEN clip(((v - 16) * 255) \div 219) ELSE v
    IN  IF Len(data) # h * w THEN ReshapeError
        ELSE Ok(Image(h, w, [j \in 1..(h * w * 3) |-> y(data[((j - 1) \div 3) + 1])]))

\* yuv_to_bgr888(data, width, height, fmt, options)
yuv_to_bgr888(env, data, width, height, f, options) ==
    IF f = Attr("Y8") THEN y8_to_bgr888(env, data, width, height, options)
    ELSE IF f = Attr("YUYV") THEN yuyv_to_bgr888(env, data, width, height, options)
    ELSE IF f = Attr("UYVY") THEN uyvy_to_bgr888(env, data, width, height, options)
    ELSE IF f = Attr("NV12") THEN nv12_to_bgr888(env, data, width, height, options)
    ELSE RaiseMsg("RuntimeError", "Unsupported YUV format")

----------------------------------------------------------------------------
(* conv/raw.py, conv/raw_nb.py: the format and the unpacking *)

\* the characters of a str, for the names RawFormat.from_pixelformat takes
\* apart (the names of the registry's RAW formats)
chars ==
    [SBGGR8 |-> << "S", "B", "G", "G", "R", "8" >>,
     SGBRG8 |-> << "S", "G", "B", "R", "G", "8" >>,
     SGRBG8 |-> << "S", "G", "R", "B", "G", "8" >>,
     SRGGB8 |-> << "S", "R", "G", "G", "B", "8" >>,
     SBGGR10 |-> << "S", "B", "G", "G", "R", "1", "0" >>,
     SGBRG10 |-> << "S", "G", "B", "R", "G", "1", "0" >>,
     SGRBG10 |-> << "S", "G", "R", "B", "G", "1", "0" >>,
     SRGGB10 |-> << "S", "R", "G", "G", "B", "1", "0" >>,
     SBGGR10P |-> << "S", "B", "G", "G", "R", "1", "0", "P" >>,
     SGBRG10P |-> << "S", "G", "B", "R", "G", "1", "0", "P" >>,
     SGRBG10P |-> << "S", "G", "R", "B", "G", "1", "0", "P" >>,
     SRGGB10P |-> << "S", "R", "G", "G", "B", "1", "0", "P" >>,
     SBGGR12 |-> << "S", "B", "G", "G", "R", "1", "2" >>,
     SGBRG12 |-> << "S", "G", "B", "R", "G", "1", "2" >>,
     SGRBG12 |-> << "S", "G", "R", "B", "G", "1", "2" >>,
     SRGGB12 |-> << "S", "R", "G", "G", "B", "1", "2" >>,
     SBGGR12P |-> << "S", "B", "G", "G", "R", "1", "2", "P" >>,
     SGBRG12P |-> << "S", "G", "B", "R", "G", "1", "2", "P" >>,
     SGRBG12P |-> << "S", "G", "R", "B", "G", "1", "2", "P" >>,
     SRGGB12P |-> << "S", "R", "G", "G", "B", "1", "2", "P" >>,
     SBGGR16 |-> << "S", "B", "G", "G", "R", "1", "6" >>,
     SGBRG16 |-> << "S", "G", "B", "R", "G", "1", "6" >>,
     SGRBG16 |-> << "S", "G", "R", "B", "G", "1", "6" >>,
     SRGGB16 |-> << "S", "R", "G", "G", "B", "1", "6" >>]

\* int(c) of one decimal digit
digit == ("0" :> 0) @@ ("1" :> 1) @@ ("2" :> 2) @@ ("3" :> 3) @@ ("4" :> 4) @@
         ("5" :> 5) @@ ("6" :> 6) @@ ("7" :> 7) @@ ("8" :> 8) @@ ("9" :> 9)

\* int(s) of a string of decimal digits
RECURSIVE int(_)
int(s) == IF s = <<>> THEN 0 ELSE 10 * int(SubSeq(s, 1, Len(s) - 1)) + digit[s[Len(s)]]

\* s.find(c, start): the 0-based index of the first c at or after start, or -1
find(s, c, start) ==
    LET hits == {i \in (start + 1)..Len(s) : s[i] = c}
    IN  IF hits = {} THEN -1 ELSE Min(hits) - 1

\* Python's % 2 and // 2, which round towards minus infinity
mod2(i) == i % 2

div2(i) == IF i >= 0 THEN i \div 2 ELSE -((1 - i) \div 2)

\* BayerPattern.from_pattern(pattern): each position is (x, y)
from_pattern(pattern) ==
    LET r == find(pattern, "R", 0)
        g == find(pattern, "G", 0)
        gg == find(pattern, "G", g + 1)
        b == find(pattern, "B", 0)
    IN  [r0 |-> <<mod2(r), div2(r)>>,
         g0 |-> <<mod2(g), div2(g)>>,
         g1 |-> <<mod2(gg), div2(gg)>>,
         b0 |-> <<mod2(b), div2(b)>>]

\* RawFormat.from_pixelformat(fmt)
from_pixelformat(f) ==
    LET name == chars[FMT_LIST[f].name]
        is_packed == name[Len(name)] = "P"
    IN  [bayer_pattern |-> from_pattern(SubSeq(name, 2, 5)),
         bits_per_pixel |-> IF is_packed THEN int(SubSeq(name, 6, Len(name) - 1))
                            ELSE int(SubSeq(name, 6, Len(name))),
         is_packed |-> is_packed]

\* data.reshape((len(data) // bytesperline, bytesperline)) when bytesperline
\* is given, data.reshape((height, len(data) // height)) otherwise
to_rows(data, height, bytesperline) ==
    LET nrows == IF bytesperline # 0 THEN Len(data) \div bytesperline ELSE height
        ncols == IF bytesperline # 0 THEN bytesperline ELSE Len(data) \div height
    IN  IF nrows * ncols # Len(data) THEN ReshapeError
        ELSE Ok([r \in 1..nrows |-> SubSeq(data, (r - 1) * ncols + 1, r * ncols)])

\* rows kept with their padding
Mut_delete_padding_none(rows, padded_width, bytesperline) == rows

\* np.delete(data, np.s_[padded_width:], 1) when bytesperline > padded_width
delete_padding(rows, padded_width, bytesperline) ==
    IF bytesperline > padded_width
    THEN [r \in 1..Len(rows) |-> Prefix(rows[r], padded_width)]
    ELSE rows

\* the rows of a two-dimensional array, one after the other
RECURSIVE flatten(_)
flatten(rows) == IF rows = <<>> THEN <<>> ELSE Head(rows) \o flatten(Tail(rows))

Mut_unpack_10bit_low_first(arr16) ==
    IF \E r \in 1..Len(arr16) : Len(arr16[r]) % 5 # 0 THEN BroadcastError
    ELSE Ok([r \in 1..Len(arr16) |->
                [k \in 1..((Len(arr16[r]) \div 5) * 4) |->
                    LET group == (k - 1) \div 4
                        byte == (k - 1) % 4
                        shifted(i) == (arr16[r][5 * group + i + 1] * 4) % 65536
                    IN  BitOrNat(shifted(byte), lowbits(shr(shifted(4), (byte + 1) * 2), 2))]])

\* _unpack_10bit(arr16): every element is shifted left by 2 in uint16, the
\* packing byte of each group of 5 too; the slices byte::5 and 4::5 have
\* the same shape when the row length is a multiple of 5
_unpack_10bit(arr16) ==
    IF \E r \in 1..Len(arr16) : Len(arr16[r]) % 5 # 0 THEN BroadcastError
    ELSE Ok([r \in 1..Len(arr16) |->
                [k \in 1..((Len(arr16[r]) \div 5) * 4) |->
                    LET group == (k - 1) \div 4
                        byte == (k - 1) % 4
                        shifted(i) == (arr16[r][5 * group + i + 1] * 4) % 65536
                    IN  BitOrNat(shifted(byte), lowbits(shr(shifted(4), (4 - byte) * 2), 2))]])

\* unpack_10bit_nb(arr16): out_cols = cols // 5 * 4
unpack_10bit_nb(arr16) ==
    Ok([r \in 1..Len(arr16) |->
           [k \in 1..((Len(arr16[r]) \div 5) * 4) |->
               LET group == (k - 1) \div 4
                   i == (k - 1) % 4
                   p == (arr16[r][5 * group + i + 1] * 4) % 65536
                   packed == arr16[r][5 * group + 5]
               IN  BitOrNat(p, lowbits(shr(packed, 6 - 2 * i), 2))]])

\* 12-bit unpacking that gives sample 0 the low nibble of the packing byte
Mut_unpack_12bit_low_first(arr16) ==
    IF \E r \in 1..Len(arr16) : Len(arr16[r]) % 3 # 0 THEN BroadcastError
    ELSE Ok([r \in 1..Len(arr16) |->
                [k \in 1..((Len(arr16[r]) \div 3) * 2) |->
                    LET group == (k - 1) \div 2
                        byte == (k - 1) % 2
                        shifted(i) == (arr16[r][3 * group + i + 1] * 16) % 65536
                    IN  BitOrNat(shifted(byte), lowbits(shr(shifted(2), (byte + 1) * 4), 4))]])

\* _unpack_12bit(arr16)
_unpack_12bit(arr16) ==
    IF \E r \in 1..Len(arr16) : Len(arr16[r]) % 3 # 0 THEN BroadcastError
    ELSE Ok([r \in 1..Len(arr16) |->
                [k \in 1..((Len(arr16[r]) \div 3) * 2) |->
                    LET group == (k - 1) \div 2
                        byte == (k - 1) % 2
                        shifted(i) == (arr16[r][3 * group + i + 1] * 16) % 65536
                    IN  BitOrNat(shifted(byte), lowbits(shr(shifted(2), (2 - byte) * 4), 4))]])

\* unpack_12bit_nb(arr16): out_cols = cols // 3 * 2
unpack_12bit_nb(arr16) ==
    Ok([r \in 1..Len(arr16) |->
           [k \in 1..((Len(arr16[r]) \div 3) * 2) |->
               LET group == (k - 1) \div 2
                   i == (k - 1) % 2
                   p == (arr16[r][3 * group + i + 1] * 16) % 65536
                   packed == arr16[r][3 * group + 3]
               IN  BitOrNat(p, lowbits(shr(packed, 4 - 4 * i), 4))]])

\* prepare_packed_raw(data, width, height, bits_per_pixel, bytesperline)
prepare_packed_raw(env, data, width, height, bits_per_pixel, bytesperline) ==
    IF bits_per_pixel \notin {10, 12} THEN RaiseMsg("AssertionError", "Only 10 and 12 bpp are supported")
    ELSE LET rows == to_rows(data, height, bytesperline)
             padded_width == (width * bits_per_pixel) \div 8
             arr16_input == delete_padding(rows.val, padded_width, bytesperline)
         IN  IF ~rows.ok THEN rows
             ELSE IF bits_per_pixel = 10
             THEN (IF env.USE_NUMBA THEN unpack_10bit_nb(arr16_input)
                   ELSE _unpack_10bit(arr16_input))
             ELSE (IF env.USE_NUMBA THEN unpack_12bit_nb(arr16_input)
                   ELSE _unpack_12bit(arr16_input))

\* prepare_unpacked_raw(data, width, height, bits_per_pixel, bytesperline)
prepare_unpacked_raw(data, width, height, bits_per_pixel, bytesperline) ==
    LET rows == to_rows(data, height, bytesperline)
        bytes_per_pixel == (bits_per_pixel + 7) \div 8
        padded_width == width * bytes_per_pixel
        trimmed == delete_padding(rows.val, padded_width, bytesperline)
        bytes == flatten(trimmed)
        \* data.view(np.uint16): little-endian pairs of each row
        words == [k \in 1..(Len(bytes) \div 2) |-> bytes[2 * k - 1] + 256 * bytes[2 * k]]
        shaped(flat) == [r \in 1..height |-> SubSeq(flat, (r - 1) * width + 1, r * width)]
    IN  IF ~rows.ok THEN rows
        ELSE IF bits_per_pixel = 8 THEN
            IF Len(bytes) # height * width THEN ReshapeError
            ELSE Ok(shaped(bytes))
        ELSE IF bits_per_pixel \in {10, 12, 16} THEN
            IF \E r \in 1..Len(trimmed) : Len(trimmed[r]) % 2 # 0
            THEN RaiseMsg("ValueError", "cannot view as uint16")
            ELSE IF Len(words) # height * width THEN ReshapeError
            ELSE Ok(shaped(words))
        ELSE RaiseMsg("RuntimeError", "Unsupported bits per pixel")

----------------------------------------------------------------------------
(* conv/raw.py, conv/raw_nb.py: the demosaic.  data is a two-dimensional   *)
(* uint16 array of shape (h, w); cells are addressed 0-based as (y, x).    *)

\* data[y, x]
at(data, y, x) == data[y + 1][x + 1]

Mut_bayer_red_on_green(y, x, plane) ==
    IF plane = 1 /\ y % 2 = 1 /\ x % 2 = 0 THEN 1
    ELSE IF plane = 1 /\ y % 2 = 0 /\ x % 2 = 0 THEN 1
    ELSE IF plane = 1 /\ y % 2 = 1 /\ x % 2 = 1 THEN 1
    ELSE IF plane = 2 /\ y % 2 = 0 /\ x % 2 = 1 THEN 1
    ELSE 0

\* the coverage array before padding: bayer[1::2, 0::2, 0] = 1,
\* bayer[0::2, 0::2, 1] = 1, bayer[1::2, 1::2, 1] = 1, bayer[0::2, 1::2, 2] = 1
bayer(y, x, plane) ==
    IF plane = 0 /\ y % 2 = 1 /\ x % 2 = 0 THEN 1
    ELSE IF plane = 1 /\ y % 2 = 0 /\ x % 2 = 0 THEN 1
    ELSE IF plane = 1 /\ y % 2 = 1 /\ x % 2 = 1 THEN 1
    ELSE IF plane = 2 /\ y % 2 = 0 /\ x % 2 = 1 THEN 1
    ELSE 0

\* the value array before padding: rgb[1::2, 0::2, 0] = data[r0[1]::2, r0[0]::2]
\* and so on; the cell (i, j) of the right-hand slice lands in the cell
\* (i, j) of the left-hand slice
rgb_plane(data, pattern, y, x, plane) ==
    IF plane = 0 /\ y % 2 = 1 /\ x % 2 = 0
    THEN at(data, pattern.r0[2] + (y - 1), pattern.r0[1] + x)
    ELSE IF plane = 1 /\ y % 2 = 0 /\ x % 2 = 0
    THEN at(data, pattern.g0[2] + y, pattern.g0[1] + x)
    ELSE IF plane = 1 /\ y % 2 = 1 /\ x % 2 = 1
    THEN at(data, pattern.g1[2] + (y - 1), pattern.g1[1] + (x - 1))
    ELSE IF plane = 2 /\ y % 2 = 0 /\ x % 2 = 1
    THEN at(data, pattern.b0[2] + y, pattern.b0[1] + (x - 1))
    ELSE 0

\* the sum over the 3x3 window centred on (y, x) of a plane padded with
\* one cell of zeros on every side; P(yy, xx) is the unpadded plane
window_sum(h, w, y, x, P(_, _)) ==
    LET cell(yy, xx) == IF yy >= 0 /\ yy < h /\ xx >= 0 /\ xx < w THEN P(yy, xx) ELSE 0
    IN  cell(y - 1, x - 1) + cell(y - 1, x) + cell(y - 1, x + 1)
          + cell(y, x - 1) + cell(y, x) + cell(y, x + 1)
          + cell(y + 1, x - 1) + cell(y + 1, x) + cell(y + 1, x + 1)

\* bsum of _compute_demosaic_planes / compute_demosaic_planes_nb at (y, x)
bsum(h, w, y, x, plane) ==
    LET P(yy, xx) == bayer(yy, xx, plane)
    IN  window_sum(h, w, y, x, P)

\* psum at (y, x), in uint32
psum(data, pattern, h, w, y, x, plane) ==
    LET P(yy, xx) == rgb_plane(data, pattern, yy, xx, plane)
    IN  window_sum(h, w, y, x, P)

\* _demosaic_3x3_window(data, pattern, h, w): the (h, w, 3) uint16 array,
\* flattened.  The slices assigned have equal shapes when h and w are
\* even.  An integer division by zero leaves 0 in numpy (with a warning).
_demosaic_3x3_window(env, data, pattern, h, w) ==
    IF h % 2 # 0 \/ w % 2 # 0 THEN BroadcastError
    ELSE Ok([shape |-> <<h, w, 3>>,
             data |-> [j \in 1..(h * w * 3) |->
                LET y == ((j - 1) \div 3) \div w
                    x == ((j - 1) \div 3) % w
                    plane == (j - 1) % 3
                IN  IF bsum(h, w, y, x, plane) = 0 THEN 0
                    ELSE (psum(data, pattern, h, w, y, x, plane)
                              \div bsum(h, w, y, x, plane)) % 65536]])

\* one channel of the cell (y, x) of output, 0 outside the array
peek(out, h, w, y, x, c) ==
    IF y >= 0 /\ y < h /\ x >= 0 /\ x < w THEN out[<<y, x, c>>] ELSE 0

\* 1 when (y, x) is inside the array
inside(h, w, y, x) == IF y >= 0 /\ y < h /\ x >= 0 /\ x < w THEN 1 ELSE 0

\* sum // count over the cells of nbrs that are inside the array, or the
\* value kept when there is none
average(out, h, w, c, nbrs, keep) ==
    LET sum == peek(out, h, w, nbrs[1][1], nbrs[1][2], c) + peek(out, h, w, nbrs[2][1], nbrs[2][2], c)
                 + (IF Len(nbrs) = 4
                    THEN peek(out, h, w, nbrs[3][1], nbrs[3][2], c)
                             + peek(out, h, w, nbrs[4][1], nbrs[4][2], c)
                    ELSE 0)
        count == inside(h, w, nbrs[1][1], nbrs[1][2]) + inside(h, w, nbrs[2][1], nbrs[2][2])
                 + (IF Len(nbrs) = 4
                    THEN inside(h, w, nbrs[3][1], nbrs[3][2]) + inside(h, w, nbrs[4][1], nbrs[4][2])
                    ELSE 0)
    IN  IF count > 0 THEN (sum \div count) % 65536 ELSE keep

cross(y, x) == << <<y - 1, x>>, <<y + 1, x>>, <<y, x - 1>>, <<y, x + 1>> >>

diagonal(y, x) == << <<y - 1, x - 1>>, <<y - 1, x + 1>>, <<y + 1, x - 1>>, <<y + 1, x + 1>> >>

horizontal(y, x) == << <<y, x - 1>>, <<y, x + 1>> >>

vertical(y, x) == << <<y - 1, x>>, <<y + 1, x>> >>

\* (y, x) is visited by `for y in range(s[0], h, 2): for x in range(s[1], w, 2)`
\* after `s_y, s_x = s`
visits(s, y, x) == y >= s[1] /\ (y - s[1]) % 2 = 0 /\ x >= s[2] /\ (x - s[2]) % 2 = 0

\* _demosaic_bilinear_nb(data, r0, g0, g1, b0, h, w).  Each loop nest writes
\* cells of one site class and reads cells of the other classes only, so
\* it is one simultaneous update of output.
_demosaic_bilinear_nb(data, r0, g0, g1, b0, h, w) ==
    LET cells == (0..(h - 1)) \X (0..(w - 1)) \X (0..2)
        copied == [t \in cells |->
            IF t[3] = 0 /\ visits(r0, t[1], t[2]) THEN at(data, t[1], t[2])
            ELSE IF t[3] = 1 /\ (visits(g0, t[1], t[2]) \/ visits(g1, t[1], t[2]))
            THEN at(data, t[1], t[2])
            ELSE IF t[3] = 2 /\ visits(b0, t[1], t[2]) THEN at(data, t[1], t[2])
            ELSE 0]
        red == [t \in cells |->
            IF visits(r0, t[1], t[2]) /\ t[3] = 1
            THEN average(copied, h, w, 1, cross(t[1], t[2]), copied[t])
            ELSE IF visits(r0, t[1], t[2]) /\ t[3] = 2
            THEN average(copied, h, w, 2, diagonal(t[1], t[2]), copied[t])
            ELSE copied[t]]
        blue == [t \in cells |->
            IF visits(b0, t[1], t[2]) /\ t[3] = 0
            THEN average(red, h, w, 0, diagonal(t[1], t[2]), red[t])
            ELSE IF visits(b0, t[1], t[2]) /\ t[3] = 1
            THEN average(red, h, w, 1, cross(t[1], t[2]), red[t])
            ELSE red[t]]
        green0 == [t \in cells |->
            IF visits(g0, t[1], t[2]) /\ t[3] = 0
            THEN average(blue, h, w, 0, horizontal(t[1], t[2]), blue[t])
            ELSE IF visits(g0, t[1], t[2]) /\ t[3] = 2
            THEN average(blue, h, w, 2, vertical(t[1], t[2]), blue[t])
            ELSE blue[t]]
        green1 == [t \in cells |->
            IF visits(g1, t[1], t[2]) /\ t[3] = 2
            THEN average(green0, h, w, 2, horizontal(t[1], t[2]), green0[t])
            ELSE IF visits(g1, t[1], t[2]) /\ t[3] = 0
            THEN average(green0, h, w, 0, vertical(t[1], t[2]), green0[t])
            ELSE green0[t]]
    IN  Ok([shape |-> <<h, w, 3>>,
            data |-> [j \in 1..(h * w * 3) |->
                green1[<< ((j - 1) \div 3) \div w, ((j - 1) \div 3) % w, (j - 1) % 3 >>]]])

\* demosaic(data, pattern, options); h, w = data.shape
demosaic(env, data, pattern, options) ==
    LET method == IF truthy(options) THEN get(options, "demosaic_method", "3x3") ELSE "3x3"
        h == Len(data)
        w == IF data = <<>> THEN 0 ELSE Len(data[1])
    IN  IF method = "bilinear" THEN
            IF env.USE_NUMBA
            THEN _demosaic_bilinear_nb(data, pattern.r0, pattern.g0, pattern.g1, pattern.b0, h, w)
            ELSE RaiseMsg("NotImplementedError", "Bilinear demosaic not available without Numba")
        ELSE IF method = "3x3" THEN _demosaic_3x3_window(env, data, pattern, h, w)
        ELSE RaiseMsg("ValueError", "Unknown demosaic method")

\* the end of raw_to_bgr888 without the shift: only the truncation
Mut_to_8bit_no_shift(rgb, bits_per_pixel) ==
    IF ~rgb.ok THEN rgb
    ELSE Ok(Image(rgb.val.shape[1], rgb.val.shape[2],
                  [j \in 1..Len(rgb.val.data) |-> rgb.val.data[j] % 256]))

\* the end of raw_to_bgr888: (rgb >> (bits_per_pixel - 8)).astype(np.uint8)
to_8bit(rgb, bits_per_pixel) ==
    IF ~rgb.ok THEN rgb
    ELSE Ok(Image(rgb.val.shape[1], rgb.val.shape[2],
                  [j \in 1..Len(rgb.val.data) |->
                      shr(rgb.val.data[j], bits_per_pixel - 8) % 256]))

\* raw_to_bgr888 from the demosaic on, arr16 being the outcome of the
\* preparation
demosaic_to_8bit(env, arr16, raw_fmt, options) ==
    IF ~arr16.ok THEN arr16
    ELSE to_8bit(demosaic(env, arr16.val, raw_fmt.bayer_pattern, options),
                 raw_fmt.bits_per_pixel)

\* raw_to_bgr888 after the format was parsed into raw_fmt
raw_pipeline(env, data, width, height, bytesperline, raw_fmt, options) ==
    IF raw_fmt.is_packed
    THEN demosaic_to_8bit(env,
                          prepare_packed_raw(env, data, width, height,
                                             raw_fmt.bits_per_pixel, bytesperline),
                          raw_fmt, options)
    ELSE demosaic_to_8bit(env,
                          prepare_unpacked_raw(data, width, height,
                                               raw_fmt.bits_per_pixel, bytesperline),
                          raw_fmt, options)

\* raw_to_bgr888(data, width, height, bytesperline, fmt, options)
raw_to_bgr888(env, data, width, height, bytesperline, f, options) ==
    raw_pipeline(env, data, width, height, bytesperline, from_pixelformat(f), options)

----------------------------------------------------------------------------
(* conv/conv.py *)

\* the size check of one plane of to_bgr888, ps being the outcome of
\* fmt.planesize(stride, height, i): the bytes the plane adds to the view
plane_view(arr, stride_, height, ps) ==
    IF ~ps.ok THEN ps
    ELSE IF Len(arr) < ps.val THEN RaiseMsg("ValueError", "Input array is too small")
    ELSE Ok(stride_ * height)

Mut_plane_no_stride_check(f, height, bytesperline, arr, i, natural) ==
    IF ~natural.ok THEN natural
    ELSE IF bytesperline > 0
    THEN plane_view(arr, bytesperline, height, planesize(f, bytesperline, height, i))
    ELSE plane_view(arr, natural.val, height, planesize(f, natural.val, height, i))

\* one iteration of the loop of to_bgr888, for plane i, natural being the
\* outcome of fmt.stride(width, i)
plane(f, height, bytesperline, arr, i, natural) ==
    IF ~natural.ok THEN natural
    ELSE IF bytesperline > 0 /\ bytesperline < natural.val
    THEN RaiseMsg("ValueError", "bytesperline is too small")
    ELSE IF bytesperline > 0
    THEN plane_view(arr, bytesperline, height, planesize(f, bytesperline, height, i))
    ELSE plane_view(arr, natural.val, height, planesize(f, natural.val, height, i))

\* the loop of to_bgr888 over the planes, from plane i on, with the size
\* accumulated so far; it ends with the size of the view or with the
\* exception raised on the way
RECURSIVE to_bgr888_loop(_, _, _, _, _, _, _)

\* the loop goes on after an iteration that added step.val bytes
loop_next(f, width, height, bytesperline, arr, i, size, step) ==
    IF ~step.ok THEN step
    ELSE to_bgr888_loop(f, width, height, bytesperline, arr, i + 1, size + step.val)

to_bgr888_loop(f, width, height, bytesperline, arr, i, size) ==
    IF i >= Len(FMT_LIST[f].planes) THEN Ok(size)
    ELSE loop_next(f, width, height, bytesperline, arr, i, size,
                   plane(f, height, bytesperline, arr, i, stride(f, width, i, 1)))

Mut_dispatch_raw_as_rgb(env, f, width, height, bytesperline, arr, options, color, size) ==
    IF ~size.ok THEN size
    ELSE IF color = "YUV"
    THEN yuv_to_bgr888(env, Prefix(arr, size.val), width, height, f, options)
    ELSE rgb_to_bgr888(f, width, height, Prefix(arr, size.val))

\* to_bgr888 after the loop: the view arr[:size] goes to the handler of
\* the format's colour encoding.  The RAW branch calls raw_to_bgr888
\* without options, whose default is None.
dispatch(env, f, width, height, bytesperline, arr, options, color, size) ==
    IF ~size.ok THEN size
    ELSE IF color = "YUV"
    THEN yuv_to_bgr888(env, Prefix(arr, size.val), width, height, f, options)
    ELSE IF color = "RAW"
    THEN raw_to_bgr888(env, Prefix(arr, size.val), width, height, bytesperline, f, OptNone)
    ELSE IF color = "RGB"
    THEN rgb_to_bgr888(f, width, height, Prefix(arr, size.val))
    ELSE RaiseMsg("ValueError", "Unsupported format")

\* to_bgr888(fmt, width, height, bytesperline, arr, options)
to_bgr888(env, f, width, height, bytesperline, arr, options) ==
    IF ~(Len(FMT_LIST[f].planes) = 1 \/ bytesperline = 0) THEN Raise("AssertionError")
    ELSE dispatch(env, f, width, height, bytesperline, arr, options, FMT_LIST[f].color,
                  to_bgr888_loop(f, width, height, bytesperline, arr, 0, 0))

\* buffer_to_bgr888(fmt, width, height, bytesperline, buffer, options):
\* np.frombuffer(buffer, dtype=np.uint8) is the buffer's bytes
buffer_to_bgr888(env, f, width, height, bytesperline, buffer, options) ==
    to_bgr888(env, f, width, height, bytesperline, buffer, options)

----------------------------------------------------------------------------
(* Inputs of the conversions *)

\* widths and heights of converted frames: 1..MaxConvWidth, 1..MaxConvHeight
MaxConvWidth == 4

MaxConvHeight == 2

\* bytesperline arguments: 0..MaxBytesPerLine
MaxBytesPerLine == 3

\* buffers of arbitrary length have 0..MaxBufLen bytes
MaxBufLen == 10

\* buffer contents are drawn with the seeds 0..MaxSeed
MaxSeed == 0

\* frames handed to demosaic are 2..2*MaxHalfSize cells wide and high
MaxHalfSize == 2

\* arrays handed to the 10-bit unpacker have 1..MaxUnpackRows rows
MaxUnpackRows == 2

ConvWidths == 1..MaxConvWidth

ConvHeights == 1..MaxConvHeight

BytesPerLines == 0..MaxBytesPerLine

BufLens == 0..MaxBufLen

Seeds == 0..MaxSeed

\* byte i (1-based) of a buffer: a stand-in for the generator the tests
\* seed (rnd.bytes(size)); seed 0 gives 1, 2, 3, ...
rnd_byte(seed, i) == ((1 + 79 * seed) + (i - 1) * (1 + 72 * seed)) % 256

rnd_bytes(seed, size) == [i \in 1..size |-> rnd_byte(seed, i)]

\* the build and the machine: whether the numba kernels were importable,
\* what lies beyond the end of a buffer (-1: an unmapped page), and the
\* side on which a double-precision sum next to an integer falls
Envs ==
    {[USE_NUMBA |-> FALSE, beyond |-> -1, fp |-> e] : e \in {-FpEps, FpEps}}
        \cup {[USE_NUMBA |-> TRUE, beyond |-> b, fp |-> e] :
                  b \in {-1, 170}, e \in {-FpEps, FpEps}}

\* a buffer that holds the whole frame is never read beyond its end
FrameEnvs == {env \in Envs : env.beyond = -1}

\* the options the viewer and the tests pass
OptionDicts ==
    {OptNone, Dict({})}
        \cup {Dict({<<"range", r>>, <<"encoding", e>>}) :
                  r \in {"limited", "full"}, e \in {"bt601", "bt709", "bt2020"}}
        \cup {Dict({<<"range", r>>}) : r \in {"limited", "full"}}
        \cup {Dict({<<"demosaic_method", m>>}) : m \in {"3x3", "bilinear", "mosaic"}}

\* the options demosaic sees
DemosaicOptions ==
    {OptNone} \cup {Dict({<<"demosaic_method", m>>}) : m \in {"3x3", "bilinear", "mosaic"}}

\* 10-bit samples: all bits clear, all set, each low bit alone, mixed
Samples10 == {0, 1, 2, 513, 684, 1023}

\* the rows below the first of an array handed to the unpacker
MoreRows10 == {<<0, 0, 0, 0>>, <<1023, 1023, 1023, 1023>>, <<1, 2, 3, 1020>>}

\* four 10-bit samples in 5 bytes: byte i holds the high 8 bits of sample
\* i, byte 4 the low 2 bits of all four, those of sample 0 on top
pack10(v) ==
    << shr(v[1], 2), shr(v[2], 2), shr(v[3], 2), shr(v[4], 2),
       lowbits(v[1], 2) * 64 + lowbits(v[2], 2) * 16 + lowbits(v[3], 2) * 4 + lowbits(v[4], 2) >>

\* the arrays of samples handed, packed, to the unpacker
RECURSIVE SampleArrays(_)
SampleArrays(n) ==
    IF n = 1 THEN {<<row>> : row \in Samples10 \X Samples10 \X Samples10 \X Samples10}
    ELSE SampleArrays(n - 1)
             \cup {a \o <<row>> : a \in {b \in SampleArrays(n - 1) : Len(b) = n - 1},
                                   row \in MoreRows10}

\* the RAW formats of the registry
RawFormats == {f \in Formats : FMT_LIST[f].color = "RAW"}

\* a frame of h x w samples of bits_per_pixel bits, as demosaic gets it
rnd_samples(seed, h, w, bits_per_pixel) ==
    [y \in 1..h |-> [x \in 1..w |->
        (rnd_byte(seed, (y - 1) * w + x) * 257) % Pow2(bits_per_pixel)]]

----------------------------------------------------------------------------
(* The client of the conversions *)

\* to_bgr888 on a buffer of any length with any bytesperline
\* (conv-perf-test.py; the viewer's buffer is a whole file)
CallToBgr888 ==
    /\ pc = "idle"
    /\ \E env \in Envs, f \in Formats, width \in ConvWidths, height \in ConvHeights,
          bytesperline \in BytesPerLines, len \in BufLens :
            Call("to_bgr888",
                 [env |-> env, fmt |-> f, width |-> width, height |-> height,
                  bytesperline |-> bytesperline, arr |-> rnd_bytes(0, len),
                  options |-> OptNone],
                 to_bgr888(env, f, width, height, bytesperline, rnd_bytes(0, len), OptNone))

\* the call of buffer_to_bgr888 on the buffer of size.val bytes that
\* generate_test_buffer made, size being the outcome of fmt.framesize
ConvertFrame(env, f, width, height, seed, options, size) ==
    /\ size.ok
    /\ Call("buffer_to_bgr888",
            [env |-> env, fmt |-> f, width |-> width, height |-> height,
             bytesperline |-> 0, buffer |-> rnd_bytes(seed, size.val),
             options |-> options],
            buffer_to_bgr888(env, f, width, height, 0, rnd_bytes(seed, size.val), options))

\* buffer_to_bgr888 on a buffer of exactly framesize bytes, with options
\* (test_conv.py: generate_test_buffer, then buffer_to_bgr888)
CallBufferToBgr888 ==
    /\ pc = "idle"
    /\ \E env \in FrameEnvs, f \in Formats, width \in ConvWidths, height \in ConvHeights,
          seed \in Seeds, options \in OptionDicts :
            ConvertFrame(env, f, width, height, seed, options,
                         framesize(f, width, height, 1))

\* the image returned for an RGB888 buffer is converted as RGB888 once more
CallBufferToBgr888Again ==
    /\ pc = "returned"
    /\ prev.op = "none"
    /\ op = "buffer_to_bgr888"
    /\ args.fmt = Attr("RGB888")
    /\ ret.ok
    /\ Chain("buffer_to_bgr888",
             [env |-> args.env, fmt |-> args.fmt, width |-> args.width,
              height |-> args.height, bytesperline |-> 0,
              buffer |-> ret.val.data, options |-> args.options],
             buffer_to_bgr888(args.env, args.fmt, args.width, args.height, 0,
                              ret.val.data, args.options))

\* the unpacker called by prepare_packed_raw on rows of packed samples
CallUnpack10bit ==
    /\ pc = "idle"
    /\ \E env \in FrameEnvs, samples \in SampleArrays(MaxUnpackRows) :
            LET arr16 == [r \in 1..Len(samples) |-> pack10(samples[r])]
            IN  Call("unpack_10bit",
                     [env |-> env, samples |-> samples, arr16 |-> arr16],
                     IF env.USE_NUMBA THEN unpack_10bit_nb(arr16) ELSE _unpack_10bit(arr16))

\* demosaic called by raw_to_bgr888 on the frame prepared for a RAW format
CallDemosaic ==
    /\ pc = "idle"
    /\ \E env \in FrameEnvs, f \in RawFormats, hh \in 1..MaxHalfSize, hw \in 1..MaxHalfSize,
          seed \in Seeds, options \in DemosaicOptions :
            LET data == rnd_samples(seed, 2 * hh, 2 * hw, from_pixelformat(f).bits_per_pixel)
            IN  Call("demosaic",
                     [env |-> env, fmt |-> f, h |-> 2 * hh, w |-> 2 * hw,
                      data |-> data, options |-> options],
                     demosaic(env, data, from_pixelformat(f).bayer_pattern, options))

\* conversions of buffers of any length
NextConv ==
    \/ CallToBgr888
    \/ Return

SpecConv == Init /\ [][NextConv]_vars

\* conversions of whole frames with options
NextConvert ==
    \/ CallBufferToBgr888
    \/ CallBufferToBgr888Again
    \/ Return

SpecConvert == Init /\ [][NextConvert]_vars

\* the 10-bit unpacker
NextUnpack ==
    \/ CallUnpack10bit
    \/ Return

SpecUnpack == Init /\ [][NextUnpack]_vars

\* the demosaic
NextDemosaic ==
    \/ CallDemosaic
    \/ Return

SpecDemosaic == Init /\ [][NextDemosaic]_vars

----------------------------------------------------------------------------
(* Claims about the conversions *)

\* the frame size of the call in args, as fmt.framesize(width, height)
FrameSizeOfCall == framesize(args.fmt, args.width, args.height, 1)

\* the natural stride of plane 0 of the call in args
NaturalStrideOfCall == stride(args.fmt, args.width, 0, 1)

\* C11: whenever the buffer is shorter than the format's frame size,
\* to_bgr888 fails with the buffer-too-small error and returns no image,
\* for every format, multi-plane formats included (bytesperline 0).
C11_ShortBufferIsRejected ==
    (pc = "returned" /\ op = "to_bgr888" /\ args.bytesperline = 0
        /\ FrameSizeOfCall.ok /\ Len(args.arr) < FrameSizeOfCall.val)
    => (~ret.ok /\ ret.err = "ValueError" /\ ret.msg = "Input array is too small")

\* C12: for a single-plane format whose natural stride exists, a non-zero
\* bytesperline below the natural stride fails with the stride-too-small
\* error (no image), and with bytesperline 0 the size check is made with
\* the natural stride: the buffer-too-small error is raised exactly when
\* the buffer is shorter than planesize(natural stride, height).
C12_StrideAndSizeChecks ==
    (pc = "returned" /\ op = "to_bgr888" /\ Len(FMT_LIST[args.fmt].planes) = 1
        /\ NaturalStrideOfCall.ok)
    => /\ (args.bytesperline # 0 /\ args.bytesperline < NaturalStrideOfCall.val)
            => ret = RaiseMsg("ValueError", "bytesperline is too small")
       /\ (args.bytesperline = 0
              /\ planesize(args.fmt, NaturalStrideOfCall.val, args.height, 0).ok)
            => ((ret = RaiseMsg("ValueError", "Input array is too small"))
                  <=> (Len(args.arr)
                         < planesize(args.fmt, NaturalStrideOfCall.val, args.height, 0).val))

\* RGB888 with width 1 has natural stride 3: bytesperline 2 is rejected
C12_Witness ==
    /\ pc = "returned" /\ op = "to_bgr888"
    /\ args.fmt = Attr("RGB888") /\ args.width = 1 /\ args.bytesperline = 2
    /\ Len(args.arr) = 6
    /\ ret = RaiseMsg("ValueError", "bytesperline is too small")

\* the formats with a handler in yuv_to_bgr888, rgb_to_bgr888, raw_to_bgr888
YuvHandled == {Attr("Y8"), Attr("YUYV"), Attr("UYVY"), Attr("NV12")}

RgbHandled ==
    {Attr("RGB888"), Attr("BGR888"), Attr("ARGB8888"), Attr("XRGB8888"),
     Attr("ABGR8888"), Attr("XBGR8888"), Attr("XBGR2101010")}

Handled == YuvHandled \cup RgbHandled \cup RawFormats

\* C13: on a buffer of exactly framesize bytes (bytesperline 0, no
\* options) to_bgr888 returns a complete height x width x 3 image when the
\* format has a handler, and fails with the unsupported-format error, with
\* no image, when it has none; no registered format is of an undefined
\* colour encoding.
C13_ImageOrUnsupported ==
    (pc = "returned" /\ op = "to_bgr888" /\ args.bytesperline = 0
        /\ FrameSizeOfCall.ok /\ Len(args.arr) = FrameSizeOfCall.val)
    => /\ FMT_LIST[args.fmt].color \in {"RGB", "YUV", "RAW"}
       /\ IF args.fmt \in Handled
          THEN /\ ret.ok
               /\ ret.val.shape = <<args.height, args.width, 3>>
               /\ Len(ret.val.data) = args.height * args.width * 3
               /\ \A j \in 1..Len(ret.val.data) : ret.val.data[j] \in 0..255
          ELSE /\ ~ret.ok
               /\ ret.err = "RuntimeError"
               /\ ret.msg = (IF FMT_LIST[args.fmt].color = "YUV"
                             THEN "Unsupported YUV format"
                             ELSE "Unsupported RGB format")

\* a RAW frame of 2 x 2 unpacked samples converts to an image under the
\* numba build
C13_Witness ==
    /\ pc = "returned" /\ op = "to_bgr888"
    /\ args.fmt \in RawFormats /\ args.width = 2 /\ args.height = 2
    /\ args.bytesperline = 0 /\ args.env.USE_NUMBA
    /\ FrameSizeOfCall.ok /\ Len(args.arr) = FrameSizeOfCall.val
    /\ ret.ok /\ ret.val.shape = <<2, 2, 3>>

\* C14: a BGR888 buffer of exactly width*height*3 bytes comes back from
\* buffer_to_bgr888 byte for byte, as an array of shape (height, width, 3).
C14_Bgr888IsIdentity ==
    (pc = "returned" /\ op = "buffer_to_bgr888" /\ args.fmt = Attr("BGR888"))
    => /\ Len(args.buffer) = args.width * args.height * 3
       /\ ret.ok
       /\ ret.val.shape = <<args.height, args.width, 3>>
       /\ ret.val.data = args.buffer

C14_Witness ==
    /\ pc = "returned" /\ op = "buffer_to_bgr888" /\ args.fmt = Attr("BGR888")
    /\ args.width = 2 /\ args.height = 2
    /\ args.buffer = <<1, 2, 3, 4, 5, 6, 7, 8, 9, 10, 11, 12>>
    /\ ret.ok /\ ret.val.data = <<1, 2, 3, 4, 5, 6, 7, 8, 9, 10, 11, 12>>

\* C15: for an RGB888 buffer, output pixel i is input pixel i with its
\* three bytes reversed, the pixels in their order; converting the output
\* as RGB888 once more gives back the first input.
C15_Rgb888SwapsChannels ==
    (pc = "returned" /\ op = "buffer_to_bgr888" /\ args.fmt = Attr("RGB888"))
    => /\ ret.ok
       /\ Len(ret.val.data) = Len(args.buffer)
       /\ \A i \in 0..(args.width * args.height - 1) : \A c \in 0..2 :
              ret.val.data[3 * i + c + 1] = args.buffer[3 * i + (2 - c) + 1]
       /\ prev.op = "buffer_to_bgr888" => ret.val.data = prev.args.buffer

\* [1,2,3,4,5,6] gave [3,2,1,6,5,4], which gave [1,2,3,4,5,6] again
C15_Witness ==
    /\ pc = "returned" /\ op = "buffer_to_bgr888" /\ args.fmt = Attr("RGB888")
    /\ args.width = 2 /\ args.height = 1
    /\ prev.op = "buffer_to_bgr888"
    /\ prev.args.buffer = <<1, 2, 3, 4, 5, 6>>
    /\ args.buffer = <<3, 2, 1, 6, 5, 4>>
    /\ ret.ok /\ ret.val.data = <<1, 2, 3, 4, 5, 6>>

\* the options that spell out the documented defaults
DefaultOptions == Dict({<<"range", "limited">>, <<"encoding", "bt601">>})

\* C16: for Y8, YUYV, UYVY and NV12, converting with options absent (None
\* or {}) gives the same outcome as converting with range limited and
\* encoding bt601 spelled out.
C16_AbsentOptionsAreDefaults ==
    (pc = "returned" /\ op = "buffer_to_bgr888" /\ args.fmt \in YuvHandled
        /\ args.options \in {OptNone, Dict({})})
    => ret = buffer_to_bgr888(args.env, args.fmt, args.width, args.height, 0,
                              args.buffer, DefaultOptions)

\* the six (range, encoding) pairs of the options
SixPairs ==
    {Dict({<<"range", r>>, <<"encoding", e>>}) :
        r \in {"limited", "full"}, e \in {"bt601", "bt709", "bt2020"}}

\* C17: converting a YUYV, UYVY or NV12 frame with any of the six
\* (encoding, range) pairs finds a conversion entry and returns an image.
C17_SixPairsConvert ==
    (pc = "returned" /\ op = "buffer_to_bgr888"
        /\ args.fmt \in {Attr("YUYV"), Attr("UYVY"), Attr("NV12")}
        /\ args.options \in SixPairs)
    => /\ ret.ok
       /\ ret.val.shape = <<args.height, args.width, 3>>

\* C18: for a RAW format buffer_to_bgr888 gives the outcome of the
\* demosaic method its options select: raw_to_bgr888 run with these
\* options (bilinear, 3x3 or absent, and an error for any other value).
C18_DemosaicMethodIsSelected ==
    (pc = "returned" /\ op = "buffer_to_bgr888" /\ args.fmt \in RawFormats)
    => ret = raw_to_bgr888(args.env, args.buffer, args.width, args.height, 0,
                           args.fmt, args.options)

\* C19: four 10-bit samples packed into 5 bytes (byte i = sample i >> 2,
\* byte 4 the low 2 bits of each, those of the first sample on top) are
\* unpacked to the same four samples, as a row of 16-bit values without
\* the packing byte; every row of the array is unpacked on its own.
C19_Unpack10RoundTrip ==
    (pc = "returned" /\ op = "unpack_10bit")
    => /\ \A r \in 1..Len(args.samples) :
              /\ Len(args.arr16[r]) = 5
              /\ \A i \in 1..4 : args.arr16[r][i] = args.samples[r][i] \div 4
       /\ ret.ok
       /\ Len(ret.val) = Len(args.samples)
       /\ \A r \in 1..Len(args.samples) :
              /\ Len(ret.val[r]) = 4
              /\ \A i \in 1..4 : ret.val[r][i] = args.samples[r][i]

\* samples with different low bits, the first sample's on top of byte 4
C19_Witness ==
    /\ pc = "returned" /\ op = "unpack_10bit"
    /\ args.samples = << <<1, 2, 513, 1023>>, <<1, 2, 3, 1020>> >>
    /\ args.arr16[1] = <<0, 0, 128, 255, 64 + 32 + 4 + 3>>
    /\ ret.ok
    /\ ret.val = << <<1, 2, 513, 1023>>, <<1, 2, 3, 1020>> >>

\* the demosaic method the options of the call in args select
MethodOfCall ==
    IF truthy(args.options) THEN get(args.options, "demosaic_method", "3x3") ELSE "3x3"

\* C20: in the 3x3 windowed average, for every Bayer pattern, every even
\* width and height >= 2 and every output pixel (border and corner pixels
\* included) the coverage sum of each of the three channels is at least 1,
\* so the division is never by zero and an image is returned.
C20_CoverageIsPositive ==
    (pc = "returned" /\ op = "demosaic" /\ MethodOfCall = "3x3")
    => /\ args.h % 2 = 0 /\ args.w % 2 = 0 /\ args.h >= 2 /\ args.w >= 2
       /\ \A y \in 0..(args.h - 1) : \A x \in 0..(args.w - 1) : \A c \in 0..2 :
              bsum(args.h, args.w, y, x, c) >= 1
       /\ ret.ok
       /\ ret.val.shape = <<args.h, args.w, 3>>

\* the smallest frame, 2 x 2: every pixel is a corner
C20_Witness ==
    /\ pc = "returned" /\ op = "demosaic" /\ MethodOfCall = "3x3"
    /\ args.h = 2 /\ args.w = 2
    /\ from_pixelformat(args.fmt).bayer_pattern = from_pattern(<<"G", "R", "B", "G">>)
    /\ bsum(2, 2, 0, 0, 0) = 1 /\ bsum(2, 2, 0, 0, 1) = 2 /\ bsum(2, 2, 0, 0, 2) = 1
    /\ ret.ok

----------------------------------------------------------------------------
(* Claims about sizes for allocation and the registry's self-check,        *)
(* checked under SpecSizing                                                *)

\* C21: for every plane of a registered format and every width and height
\* that stride and planesize accept, dumb_size(width, height, plane)
\* returns (w', h', bitspp) with w' * h' * bitspp / 8 equal to
\* planesize(stride(width, plane), height, plane); none of its assertions
\* fails there, the one on stride % bytes_per_block included.
C21_DumbSizeIsPlaneSize ==
    (pc = "returned" /\ op = "dumb_size" /\ PlaneInRange
        /\ C1_PlaneAccepted(args.fmt, args.width, args.height, 1, args.plane))
    => /\ ret.ok
       /\ ret.val[1] * ret.val[2] * ret.val[3]
              = 8 * C1_PlaneBytes(args.fmt, args.width, args.height, 1, args.plane)
       /\ ret.val[3] = 8 * PlaneInfo.bytes_per_block

\* plane 1 of NV12, 4 x 2: stride 4, one row of two 16-bit blocks
C21_Witness ==
    /\ pc = "returned" /\ op = "dumb_size"
    /\ args.fmt = Attr("NV12") /\ args.width = 4 /\ args.height = 2 /\ args.plane = 1
    /\ ret = Ok(<<2, 1, 16>>)

\* C23: every registered format has the name of the class field that
\* holds it: validate_formats passes, and find_by_name of a field's name
\* returns the format that field holds.
C23_NamesAreFieldNames ==
    (pc = "returned" /\ op = "validate_formats")
    => /\ ret.ok
       /\ \A f \in Formats : FMT_LIST[f].name = PixelFormats[f][1]
       /\ \A f \in Formats : find_by_name(PixelFormats[f][1]) = Ok(f)

\* C30: align_pixels(width, height) returns (w', h') with w' >= width,
\* h' >= height, both multiples of the format's pixel alignment, and
\* stride(w', p), planesize(stride, h', p) for every plane p and
\* framesize(w', h') complete without an assertion failure.
C30_AlignedSizesAreAccepted ==
    /\ (pc = "returned" /\ op = "align_pixels")
       => /\ ret.ok
          /\ ret.val[1] >= args.width /\ ret.val[2] >= args.height
          /\ ret.val[1] % FMT_LIST[args.fmt].pixel_align[1] = 0
          /\ ret.val[2] % FMT_LIST[args.fmt].pixel_align[2] = 0
          /\ \A p \in 0..(Len(FMT_LIST[args.fmt].planes) - 1) :
                 C1_PlaneAccepted(args.fmt, ret.val[1], ret.val[2], 1, p)
    /\ (pc = "returned" /\ op = "framesize" /\ prev.op = "align_pixels") => ret.ok

----------------------------------------------------------------------------
(* Claims about the demosaic algorithms, checked under SpecDemosaic *)

\* the channel (0 red, 1 green, 2 blue) of the sample at the mosaic site
\* (y, x) of RAW format f: the character of the pattern at row y % 2,
\* column x % 2
ChannelOfSite(f, y, x) ==
    LET c == chars[FMT_LIST[f].name][2 + (y % 2) * 2 + (x % 2)]
    IN  IF c = "R" THEN 0 ELSE IF c = "G" THEN 1 ELSE 2

\* channel c of the pixel (y, x) of the (h, w, 3) array the call returned
OutputAt(y, x, c) == ret.val.data[(y * args.w + x) * 3 + c + 1]

\* C22: in the bilinear demosaic, for each of the four Bayer patterns and
\* every site (y, x), the sample data[y][x] is found unchanged in the
\* output at (y, x) in the channel the pattern assigns to that site.
C22_BilinearKeepsSamples ==
    (pc = "returned" /\ op = "demosaic" /\ MethodOfCall = "bilinear" /\ ret.ok)
    => \A y \in 0..(args.h - 1) : \A x \in 0..(args.w - 1) :
           OutputAt(y, x, ChannelOfSite(args.fmt, y, x)) = args.data[y + 1][x + 1]

\* the real sample of channel c at the site (y, x) of the call's mosaic,
\* 0 where the pattern has another channel
RealSample(y, x, c) ==
    IF ChannelOfSite(args.fmt, y, x) = c THEN args.data[y + 1][x + 1] ELSE 0

\* 1 where the pattern has a real sample of channel c
RealCoverage(y, x, c) == IF ChannelOfSite(args.fmt, y, x) = c THEN 1 ELSE 0

\* the average of the real samples of channel c inside the 3x3 window
\* centred on (y, x)
RealAverage(y, x, c) ==
    LET V(yy, xx) == RealSample(yy, xx, c)
        N(yy, xx) == RealCoverage(yy, xx, c)
    IN  window_sum(args.h, args.w, y, x, V) \div window_sum(args.h, args.w, y, x, N)

\* C28: in the 3x3 windowed average, for each of the four Bayer patterns,
\* the sample at (y, x) is scattered to the value plane of its own channel
\* at (y, x), the coverage plane of a channel is 1 exactly where the
\* pattern has a sample of that channel, and each output value is the
\* average of the real samples of its channel in the 3x3 window.
C28_ScatterFollowsPattern ==
    (pc = "returned" /\ op = "demosaic" /\ MethodOfCall = "3x3" /\ ret.ok)
    => \A y \in 0..(args.h - 1) : \A x \in 0..(args.w - 1) : \A c \in 0..2 :
           /\ rgb_plane(args.data, from_pixelformat(args.fmt).bayer_pattern, y, x, c)
                  = RealSample(y, x, c)
           /\ bayer(y, x, c) = RealCoverage(y, x, c)
           /\ OutputAt(y, x, c) = RealAverage(y, x, c)

----------------------------------------------------------------------------
(* RAW buffers with row padding *)

\* padding bytes appended to each row: 0..MaxPad
MaxPad == 2
\* contents of RAW buffers are drawn with the kinds 0..MaxRawKind
MaxRawKind == 1

RawKinds == 0..MaxRawKind

\* what the padding bytes hold
PadFills == {0, 255}

\* RAW conversion does no floating-point arithmetic
RawEnvs == {env \in FrameEnvs : env.fp = FpEps}

\* byte i (1-based) of a RAW buffer without padding.  Kind 0 keeps the
\* high byte of every little-endian 16-bit sample below 4, so the samples
\* of the unpacked 10-, 12- and 16-bit formats are below 2^10; the other
\* kinds are the bytes of generate_test_buffer
raw_byte(kind, i) ==
    IF kind = 0
    THEN (IF i % 2 = 1 THEN (85 * i) % 256 ELSE (i \div 2) % 4)
    ELSE rnd_byte(kind, i)

\* height rows of natural bytes, each followed by pad bytes holding fill
raw_rows(kind, height, natural, pad, fill) ==
    [i \in 1..(height * (natural + pad)) |->
        IF (i - 1) % (natural + pad) < natural
        THEN raw_byte(kind, ((i - 1) \div (natural + pad)) * natural
                              + ((i - 1) % (natural + pad)) + 1)
        ELSE fill]

\* raw_to_bgr888 on a frame without padding, natural being the outcome of
\* fmt.stride(width)
ConvertRaw(env, f, width, height, kind, options, natural) ==
    /\ natural.ok
    /\ planesize(f, natural.val, height, 0).ok
    /\ Call("raw_to_bgr888",
            [env |-> env, fmt |-> f, width |-> width, height |-> height,
             bytesperline |-> 0, data |-> raw_rows(kind, height, natural.val, 0, 0),
             options |-> options],
            raw_to_bgr888(env, raw_rows(kind, height, natural.val, 0, 0),
                          width, height, 0, f, options))

CallRawToBgr888 ==
    /\ pc = "idle"
    /\ \E env \in RawEnvs, f \in RawFormats, width \in ConvWidths, height \in ConvHeights,
          kind \in RawKinds, options \in DemosaicOptions :
            ConvertRaw(env, f, width, height, kind, options, stride(f, width, 0, 1))

\* to_bgr888 on a frame whose rows carry pad bytes of padding; rows is the
\* same frame without the padding
ConvertPadded(env, f, width, height, kind, pad, fill, natural) ==
    /\ natural.ok
    /\ planesize(f, natural.val, height, 0).ok
    /\ Call("to_bgr888",
            [env |-> env, fmt |-> f, width |-> width, height |-> height,
             bytesperline |-> natural.val + pad,
             arr |-> raw_rows(kind, height, natural.val, pad, fill),
             rows |-> raw_rows(kind, height, natural.val, 0, fill),
             options |-> OptNone],
            to_bgr888(env, f, width, height, natural.val + pad,
                      raw_rows(kind, height, natural.val, pad, fill), OptNone))

CallToBgr888Padded ==
    /\ pc = "idle"
    /\ \E env \in RawEnvs, f \in RawFormats, width \in ConvWidths, height \in ConvHeights,
          kind \in RawKinds, pad \in 1..MaxPad, fill \in PadFills :
            ConvertPadded(env, f, width, height, kind, pad, fill, stride(f, width, 0, 1))

\* conversions of RAW frames
NextRaw ==
    \/ CallRawToBgr888
    \/ CallToBgr888Padded
    \/ Return

SpecRaw == Init /\ [][NextRaw]_vars

----------------------------------------------------------------------------
(* Claims about RAW conversion, checked under SpecRaw *)

\* the 16-bit samples prepared from the buffer of a raw_to_bgr888 call
PreparedOfCall ==
    IF from_pixelformat(args.fmt).is_packed
    THEN prepare_packed_raw(args.env, args.data, args.width, args.height,
                            from_pixelformat(args.fmt).bits_per_pixel, args.bytesperline)
    ELSE prepare_unpacked_raw(args.data, args.width, args.height,
                              from_pixelformat(args.fmt).bits_per_pixel, args.bytesperline)

\* the demosaiced 16-bit values of a raw_to_bgr888 call
DemosaicedOfCall ==
    demosaic(args.env, PreparedOfCall.val,
             from_pixelformat(args.fmt).bayer_pattern, args.options)

BitsOfCall == from_pixelformat(args.fmt).bits_per_pixel

\* every prepared sample of the call is below 2^bits_per_pixel
SamplesInRange ==
    \A r \in 1..Len(PreparedOfCall.val) : \A k \in 1..Len(PreparedOfCall.val[r]) :
        PreparedOfCall.val[r][k] < Pow2(BitsOfCall)

\* C24: for every RAW format (bits_per_pixel 8, 10, 12 or 16) each output
\* byte of raw_to_bgr888 is the demosaiced 16-bit value shifted right by
\* bits_per_pixel - 8 and truncated to 8 bits; when every input sample is
\* below 2^bits_per_pixel so is every demosaiced value, and the shifted
\* value is the output byte itself, in 0..255.
C24_ShiftTo8Bits ==
    (pc = "returned" /\ op = "raw_to_bgr888" /\ ret.ok)
    => /\ BitsOfCall \in {8, 10, 12, 16}
       /\ PreparedOfCall.ok /\ DemosaicedOfCall.ok
       /\ Len(ret.val.data) = Len(DemosaicedOfCall.val.data)
       /\ \A j \in 1..Len(ret.val.data) :
              ret.val.data[j]
                  = shr(DemosaicedOfCall.val.data[j], BitsOfCall - 8) % 256
       /\ SamplesInRange
            => \A j \in 1..Len(ret.val.data) :
                   /\ DemosaicedOfCall.val.data[j] < Pow2(BitsOfCall)
                   /\ shr(DemosaicedOfCall.val.data[j], BitsOfCall - 8) \in 0..255
                   /\ ret.val.data[j] = shr(DemosaicedOfCall.val.data[j], BitsOfCall - 8)

\* an unpacked 10-bit frame with samples below 1024, one of them 853:
\* the byte 213 = 853 >> 2 is in the image
C24_Witness ==
    /\ pc = "returned" /\ op = "raw_to_bgr888" /\ ret.ok
    /\ FMT_LIST[args.fmt].name = "SRGGB10"
    /\ args.width = 2 /\ args.height = 2
    /\ SamplesInRange
    /\ PreparedOfCall.val[1][1] > 255
    /\ \E j \in 1..Len(ret.val.data) :
           /\ DemosaicedOfCall.val.data[j] = PreparedOfCall.val[1][1]
           /\ ret.val.data[j] = PreparedOfCall.val[1][1] \div 4

\* C26: for every RAW format, packed or unpacked, and every bytesperline
\* above the natural row size, converting the padded buffer gives the
\* image that the same rows without their padding give with bytesperline
\* 0, whatever the padding bytes hold.
C26_PaddingIsIgnored ==
    (pc = "returned" /\ op = "to_bgr888" /\ args.fmt \in RawFormats
        /\ args.bytesperline > NaturalStrideOfCall.val)
    => /\ ret.ok
       /\ ret = to_bgr888(args.env, args.fmt, args.width, args.height, 0,
                          args.rows, args.options)

\* a packed 10-bit frame, 4 x 2, with two bytes of 255 after each row
C26_Witness ==
    /\ pc = "returned" /\ op = "to_bgr888"
    /\ FMT_LIST[args.fmt].name = "SGRBG10P"
    /\ args.width = 4 /\ args.height = 2 /\ args.bytesperline = 7
    /\ Len(args.arr) = 14 /\ args.arr[6] = 255 /\ args.arr[7] = 255 /\ args.arr[14] = 255
    /\ Len(args.rows) = 10
    /\ ret.ok /\ ret.val.shape = <<2, 4, 3>>

----------------------------------------------------------------------------
(* Conversions of whole YUV frames with subsampled chroma *)

\* the largest frame converted
MaxYuvWidth == 4

MaxYuvHeight == 4

\* the formats whose chroma is subsampled
ChromaFormats == {Attr("YUYV"), Attr("UYVY"), Attr("NV12")}

\* the options test_conv.py and the viewer pass for YUV frames
YuvOptionDicts ==
    {OptNone, Dict({<<"range", "limited">>, <<"encoding", "bt601">>}),
     Dict({<<"range", "full">>, <<"encoding", "bt709">>})}

\* buffer_to_bgr888 on a whole frame of a YUV format
CallYuvToBgr888 ==
    /\ pc = "idle"
    /\ \E env \in FrameEnvs, f \in ChromaFormats, width \in 1..MaxYuvWidth,
          height \in 1..MaxYuvHeight, seed \in Seeds, options \in YuvOptionDicts :
            ConvertFrame(env, f, width, height, seed, options,
                         framesize(f, width, height, 1))

NextYuv ==
    \/ CallYuvToBgr888
    \/ Return

SpecYuv == Init /\ [][NextYuv]_vars

----------------------------------------------------------------------------
(* Claims about chroma upsampling, checked under SpecYuv *)

\* byte k (0-based) of row y of the packed buffer of the call
RowByte(y, k) == args.buffer[y * args.width * 2 + k + 1]

\* the 0-based buffer positions the claim names for output pixel (x, y)
SampleY(y, x) ==
    IF args.fmt = Attr("YUYV") THEN RowByte(y, 2 * x)
    ELSE IF args.fmt = Attr("UYVY") THEN RowByte(y, 2 * x + 1)
    ELSE args.buffer[y * args.width + x + 1]

\* row y div 2, pair x div 2 of plane 1, a (height/2, width/2, 2) array
\* that starts after the width * height bytes of plane 0
SampleU(y, x) ==
    IF args.fmt = Attr("YUYV") THEN RowByte(y, 4 * (x \div 2) + 1)
    ELSE IF args.fmt = Attr("UYVY") THEN RowByte(y, 4 * (x \div 2))
    ELSE args.buffer[args.width * args.height
                         + ((y \div 2) * (args.width \div 2) + (x \div 2)) * 2 + 1]

SampleV(y, x) ==
    IF args.fmt = Attr("YUYV") THEN RowByte(y, 4 * (x \div 2) + 3)
    ELSE IF args.fmt = Attr("UYVY") THEN RowByte(y, 4 * (x \div 2) + 2)
    ELSE args.buffer[args.width * args.height
                         + ((y \div 2) * (args.width \div 2) + (x \div 2)) * 2 + 2]

\* the call repeated on the other path (numpy for numba, numba for numpy)
OtherPathOfCall ==
    buffer_to_bgr888([args.env EXCEPT !.USE_NUMBA = ~args.env.USE_NUMBA],
                     args.fmt, args.width, args.height, args.bytesperline,
                     args.buffer, args.options)

\* C25: for output pixel (x, y) of a converted YUYV, UYVY or NV12 frame the
\* three components are the colour conversion of Y = row[2x],
\* U = row[4(x div 2) + 1], V = row[4(x div 2) + 3] (YUYV), of
\* Y = row[2x + 1], U = row[4(x div 2)], V = row[4(x div 2) + 2] (UYVY), of
\* Y = plane0[y * width + x] and the Cb, Cr pair of plane 1 at
\* (y div 2, x div 2) (NV12), and the numpy and the numba path give the
\* same image.
C25_ChromaIsNearestNeighbour ==
    (pc = "returned" /\ op = "buffer_to_bgr888" /\ args.fmt \in ChromaFormats /\ ret.ok)
    => /\ _get_conversion_matrix(args.options).ok
       /\ ret.val.shape = <<args.height, args.width, 3>>
       /\ \A y \in 0..(args.height - 1), x \in 0..(args.width - 1), c \in 0..2 :
              ret.val.data[(y * args.width + x) * 3 + c + 1]
                  = ycbcr_component(args.env, _get_conversion_matrix(args.options).val,
                                    <<SampleY(y, x), SampleU(y, x), SampleV(y, x)>>, c)
       /\ ret = OtherPathOfCall

\* an NV12 frame of 4 x 4 converted by the numba kernels: pixel (3, 2)
\* takes the second chroma pair of the second chroma row, bytes 23 and 24
C25_Witness ==
    /\ pc = "returned" /\ op = "buffer_to_bgr888" /\ ret.ok
    /\ args.fmt = Attr("NV12") /\ args.env.USE_NUMBA
    /\ args.width = 4 /\ args.height = 4
    /\ SampleY(2, 3) = 12 /\ SampleU(2, 3) = 23 /\ SampleV(2, 3) = 24
    /\ SampleU(0, 3) = 19
    /\ ret.val.data[(2 * 4 + 3) * 3 + 1]
           = ycbcr_component(args.env, _get_conversion_matrix(args.options).val,
                             <<12, 23, 24>>, 0)

----------------------------------------------------------------------------
(* The unpackers on rows of arbitrary bytes *)

\* the most groups (of 5 or 3 bytes) in a row
MaxUnpackGroups == 2

\* bytes: all bits clear, all set, the four 2-bit fields distinct in both
\* orders, the two nibbles distinct
ByteSamples == {0, 27, 165, 228, 255}

\* rows of groups groups of size bytes each: the first group of the first
\* row is first, the other bytes are those of a seeded buffer; uint8 data
\* converted with astype(np.uint16)
byte_rows(first, rows, groups, size) ==
    [r \in 1..rows |-> [k \in 1..(groups * size) |->
        IF r = 1 /\ k <= size THEN first[k]
        ELSE rnd_byte(1, (r - 1) * groups * size + k)]]

\* prepare_packed_raw's call of the 10-bit unpacker
CallUnpack10bitBytes ==
    /\ pc = "idle"
    /\ \E env \in RawEnvs, rows \in 1..MaxUnpackRows, groups \in 1..MaxUnpackGroups,
          first \in ByteSamples \X ByteSamples \X ByteSamples \X ByteSamples \X ByteSamples :
            Call("unpack_10bit_bytes",
                 [env |-> env, arr16 |-> byte_rows(first, rows, groups, 5)],
                 IF env.USE_NUMBA THEN unpack_10bit_nb(byte_rows(first, rows, groups, 5))
                 ELSE _unpack_10bit(byte_rows(first, rows, groups, 5)))

\* prepare_packed_raw's call of the 12-bit unpacker
CallUnpack12bitBytes ==
    /\ pc = "idle"
    /\ \E env \in RawEnvs, rows \in 1..MaxUnpackRows, groups \in 1..MaxUnpackGroups,
          first \in ByteSamples \X ByteSamples \X ByteSamples :
            Call("unpack_12bit_bytes",
                 [env |-> env, arr16 |-> byte_rows(first, rows, groups, 3)],
                 IF env.USE_NUMBA THEN unpack_12bit_nb(byte_rows(first, rows, groups, 3))
                 ELSE _unpack_12bit(byte_rows(first, rows, groups, 3)))

NextUnpackers ==
    \/ CallUnpack10bitBytes
    \/ CallUnpack12bitBytes
    \/ Return

SpecUnpackers == Init /\ [][NextUnpackers]_vars

----------------------------------------------------------------------------
(* Claims about the unpackers, checked under SpecUnpackers *)

\* C27: for every row of bytes whose length is a multiple of 5,
\* unpack_10bit_nb and _unpack_10bit return the same rows of samples, each
\* in 0..1023; for every row whose length is a multiple of 3,
\* unpack_12bit_nb and _unpack_12bit return the same rows of samples, each
\* in 0..4095, sample 0 of a group taking the high nibble of the packing
\* byte and sample 1 the low nibble.
C27_UnpackersAgree ==
    /\ (pc = "returned" /\ op = "unpack_10bit_bytes")
       => /\ ret.ok
          /\ ret = _unpack_10bit(args.arr16)
          /\ ret = unpack_10bit_nb(args.arr16)
          /\ Len(ret.val) = Len(args.arr16)
          /\ \A r \in 1..Len(ret.val) :
                 /\ Len(ret.val[r]) = (Len(args.arr16[r]) \div 5) * 4
                 /\ \A k \in 1..Len(ret.val[r]) : ret.val[r][k] \in 0..1023
    /\ (pc = "returned" /\ op = "unpack_12bit_bytes")
       => /\ ret.ok
          /\ ret = _unpack_12bit(args.arr16)
          /\ ret = unpack_12bit_nb(args.arr16)
          /\ Len(ret.val) = Len(args.arr16)
          /\ \A r \in 1..Len(ret.val) :
                 /\ Len(ret.val[r]) = (Len(args.arr16[r]) \div 3) * 2
                 /\ \A g \in 0..((Len(args.arr16[r]) \div 3) - 1) :
                        /\ ret.val[r][2 * g + 1]
                               = args.arr16[r][3 * g + 1] * 16 + (args.arr16[r][3 * g + 3] \div 16)
                        /\ ret.val[r][2 * g + 2]
                               = args.arr16[r][3 * g + 2] * 16 + (args.arr16[r][3 * g + 3] % 16)
                        /\ ret.val[r][2 * g + 1] \in 0..4095
                        /\ ret.val[r][2 * g + 2] \in 0..4095

\* the numpy unpacker on the 12-bit group 255, 0, 165 (nibbles 10 and 5):
\* samples 4090 and 5
C27_Witness ==
    /\ pc = "returned" /\ op = "unpack_12bit_bytes" /\ ret.ok
    /\ ~args.env.USE_NUMBA
    /\ SubSeq(args.arr16[1], 1, 3) = <<255, 0, 165>>
    /\ SubSeq(ret.val[1], 1, 2) = <<4090, 5>>
    /\ Len(args.arr16) = 2 /\ Len(args.arr16[2]) = 6

----------------------------------------------------------------------------
(* Claims about buffers longer than the frame, checked under SpecConv *)

\* C29: for every supported format, with bytesperline 0, converting a
\* buffer longer than framesize(width, height) succeeds and gives the
\* image that converting its first framesize bytes gives, NV12 included.
C29_TrailingBytesAreIgnored ==
    (/\ pc = "returned" /\ op = "to_bgr888"
     /\ args.fmt \in Handled
     /\ args.bytesperline = 0
     /\ FrameSizeOfCall.ok
     /\ Len(args.arr) > FrameSizeOfCall.val)
    => /\ ret.ok
       /\ ret = to_bgr888(args.env, args.fmt, args.width, args.height, 0,
                          Prefix(args.arr, FrameSizeOfCall.val), args.options)
====
